---- MODULE Spec2Model ----
(***************************************************************************)
(* Verification model of oniguruma-parser: the traverser (visitor walk     *)
(* with mutation primitives) and the parser (token stream -> AST with      *)
(* whole-pattern validation).                                              *)
(***************************************************************************)
EXTENDS Integers, Sequences, FiniteSets, TLC

\* the traverser: the AST, the active traverseNode calls, and what the visitor did
VARIABLES tree, stack, calls, enters, walked, spare, status, vis

\* the parser: the options, the context shared by the parser functions, the groups
\* being parsed, and what was read so far
VARIABLES opts, current, capturingGroups, namedGroupsByName, hasNumberedRef,
          subroutines, groups, pstatus, perr, seen, refs

tvars == <<tree, stack, calls, enters, walked, spare, status, vis>>

pvars == <<opts, current, capturingGroups, namedGroupsByName, hasNumberedRef,
           subroutines, groups, pstatus, perr, seen, refs>>

\* the node constructors: the call being made and what it gave
VARIABLES made

\* the optimizer: the AST parse returned, the AST as it is now, the active
\* transforms, where optimize is, and the traversals done
VARIABLES source, ast, active, ostatus, passes

\* parse over a token sequence: the tokens, and what parse made of them
VARIABLES tokens, parsed

cvars == <<made>>

ovars == <<source, ast, active, ostatus, passes>>

wvars == <<tokens, parsed>>

xvars == <<cvars, ovars, wvars>>

vars == <<tvars, pvars, xvars>>

(***************************************************************************)
(* Bounds of the model.                                                    *)
(***************************************************************************)
\* primitive calls a visitor makes during one traverse call
MaxCalls == 2

\* largest finite bound of a quantifier token
MaxBound == 4

\* code points tried on each side of 0, 0x10FFFF and 0x13FFFF
CpWindow == 3

\* elements of a character class drawn from the leaves
MaxElements == 2

\* alternatives of a pattern
MaxAlternatives == 3

\* traversals of one optimize call
MaxPasses == 4

\* tokens between the brackets of a character class
MaxBody == 5

\* pieces of a pattern with quantifiers
MaxPieces == 3

(***************************************************************************)
(* Helpers.                                                                *)
(***************************************************************************)
Max(a, b) == IF a >= b THEN a ELSE b

Min(a, b) == IF a <= b THEN a ELSE b

\* Array.prototype.splice(start, deleteCount, ...items) on a 0-based start
Splice(arr, start, cnt, items) ==
    LET s == Min(Max(start, 0), Len(arr))
        c == Min(Max(cnt, 0), Len(arr) - s)
    IN  SubSeq(arr, 1, s) \o items \o SubSeq(arr, s + c + 1, Len(arr))

\* container[idx] = v on a JS array (an index past the end leaves holes, 0)
SetAt(arr, idx, v) ==
    IF idx < Len(arr) THEN [arr EXCEPT ![idx + 1] = v]
    ELSE arr \o [j \in 1..(idx - Len(arr)) |-> 0] \o <<v>>

\* 1-based position of node n in arr, 0 when absent
PosOf(arr, n) ==
    IF \E p \in 1..Len(arr) : arr[p] = n
    THEN CHOOSE p \in 1..Len(arr) : arr[p] = n /\ \A q \in 1..(p - 1) : arr[q] # n
    ELSE 0

Range(s) == {s[j] : j \in 1..Len(s)}

(***************************************************************************)
(* The AST: nodes are identifiers; tree[n] holds the type, the array       *)
(* children (elements / alternatives) and the keyed children.              *)
(***************************************************************************)
N(t, a, s) == [type |-> t, arr |-> a, slots |-> s]

Leaf(t) == N(t, <<>>, <<>>)

\* [cd]a(?:b)+e with spare nodes 9, 10 = [f] a visitor may insert
TreeA ==
    <<N("Alternative", <<4, 2, 3, 5>>, <<>>),
      Leaf("Character"),
      N("Quantifier", <<>>, <<6>>),
      N("CharacterClass", <<7, 8>>, <<>>),
      Leaf("Character"),
      Leaf("Character"),
      Leaf("Character"),
      Leaf("Character"),
      Leaf("Character"),
      N("CharacterClass", <<11>>, <<>>),
      Leaf("Character")>>

\* (?:a(?:bc)) below its top alternative
TreeB ==
    <<N("Alternative", <<2>>, <<>>),
      N("Group", <<3>>, <<>>),
      N("Alternative", <<4, 5>>, <<>>),
      Leaf("Character"),
      N("Group", <<6>>, <<>>),
      N("Alternative", <<7, 8>>, <<>>),
      Leaf("Character"),
      Leaf("Character"),
      Leaf("Character"),
      Leaf("Character"),
      Leaf("Character")>>

SpareNodes == {9, 10}

Nodes == DOMAIN TreeA

ArrayTypes == {"Alternative", "CharacterClass", "AbsentFunction", "CapturingGroup",
               "Group", "Pattern", "LookaroundAssertion"}

SlotTypes == {"Regex", "CharacterClassRange", "Quantifier"}

TerminalTypes == {"Assertion", "Backreference", "Character", "CharacterSet",
                  "Directive", "Flags", "Recursion", "Subroutine"}

(***************************************************************************)
(* traverseNode / traverseArray, one frame per active traverseNode call.   *)
(***************************************************************************)
NoSnap == [prim |-> "none", before |-> <<>>, after |-> <<>>, new |-> 0,
           opt |-> FALSE, nodes |-> <<>>, cur |-> 0, gone |-> FALSE,
           touched |-> FALSE, fresh |-> TRUE]

\* history: orig is the container as it was when the path was made, key its index
NoLast ==
    [prims |-> <<>>, snap |-> NoSnap, via |-> "none", cont |-> <<>>, orig |-> <<>>,
     key |-> 0]

NoMulti == [on |-> FALSE, nodes |-> <<>>, base |-> 0, j |-> 0, acc |-> 0]

\* the order in which traverseNode invokes the callbacks and the walk of the kids
CallbackOrder == <<"enterAll", "enterThis", "kids", "exitAll", "exitThis">>

PhaseAfter(pc) ==
    LET p == CHOOSE q \in 1..Len(CallbackOrder) : CallbackOrder[q] = pc
    IN  IF p = Len(CallbackOrder) THEN "return" ELSE CallbackOrder[p + 1]

NewFrame(n, parent, key, cont, via) ==
    [node |-> n, pnode |-> n, parent |-> parent, key |-> key, cont |-> cont,
     ks |-> 0, skip |-> FALSE, pc |-> CallbackOrder[1], otype |-> tree[n].type,
     ev |-> <<CallbackOrder[1]>>, prims |-> <<>>, i |-> 0, kown |-> 0, via |-> via,
     snap |-> NoSnap, last |-> NoLast, multi |-> NoMulti,
     orig |-> IF cont THEN tree[parent].arr ELSE <<>>]

Top == stack[Len(stack)]

SetTop(f) == [stack EXCEPT ![Len(stack)] = f]

InCallback ==
    /\ status = "run"
    /\ Len(stack) > 0
    /\ Top.pc # "kids"
    /\ ~Top.multi.on

\* history: how often node n received its enter callbacks (counted up to 2)
Bump(n) == [enters EXCEPT ![n] = Min(2, @ + 1)]

\* remove(): the index spliced out and the shift kept for the cursor
RemoveIndex(key, ks) == Max(0, key + ks)

\* remove() that forgets to move the cursor back
RemoveShiftKept(ks) == ks

RemoveShift(ks) == ks - 1

\* removeAllNextSiblings(): the index from which the container is cut
NextSiblingsStart(key, ks) == key + 1

\* removeAllPrevSiblings(): the count spliced off the front and the new shift
PrevShifted(key, ks) == key + ks

\* removeAllPrevSiblings() that leaves the cursor where it was
PrevShiftKept(ks, shifted) == ks

PrevShiftAfter(ks, shifted) == ks - shifted

\* replaceWith(): the container index written
ReplaceIndex(key, ks) == Max(0, key + ks)

\* traverseArray that ignores the shift a path returns
CursorNoShift(i, ks) == i + 1

\* traverseArray: i = Math.max(-1, i + keyShift), then i++
CursorAfter(i, ks) == Max(-1, i + ks) + 1

(***************************************************************************)
(* The mutation primitives of the path object.  A visitor callback may     *)
(* call any of them, in any order, while it runs.                          *)
(***************************************************************************)
Container(f) == tree[f.parent].arr

\* history: the container before and after the last primitive called on a path
Snap(f, prim, before, after, new, opt, nodes) ==
    [prim |-> prim, before |-> before, after |-> after, new |-> new,
     opt |-> opt, nodes |-> nodes, cur |-> f.node,
     gone |-> \E j \in 1..Len(f.prims) : f.prims[j] \in {"remove", "replaceWithMultiple"},
     touched |-> FALSE,
     fresh |-> \A n \in Range(nodes) : enters[n] = 0]

\* throwIfNot(container, 'Container expected') and parent[key] on a null parent
Throw ==
    /\ status' = "error"
    /\ calls' = calls + 1
    /\ UNCHANGED <<tree, stack, enters, walked, spare, vis>>

Remove ==
    /\ UNCHANGED <<pvars, xvars>>
    /\ InCallback /\ vis = "any" /\ calls < MaxCalls
    /\ LET f == Top IN
       IF ~f.cont THEN Throw
       ELSE LET before == Container(f)
                after == Splice(before, RemoveIndex(f.key, f.ks), 1, <<>>)
            IN  /\ tree' = [tree EXCEPT ![f.parent].arr = after]
                /\ stack' = SetTop([f EXCEPT !.ks = RemoveShift(f.ks),
                                            !.skip = TRUE,
                                            !.prims = Append(@, "remove"),
                                            !.snap = Snap(f, "remove", before, after, 0, FALSE, <<>>)])
                /\ calls' = calls + 1
                /\ UNCHANGED <<enters, walked, spare, status, vis>>

RemoveAllNextSiblings ==
    /\ UNCHANGED <<pvars, xvars>>
    /\ InCallback /\ vis = "any" /\ calls < MaxCalls
    /\ LET f == Top IN
       IF ~f.cont THEN Throw
       ELSE LET before == Container(f)
                after == Splice(before, NextSiblingsStart(f.key, f.ks), Len(before), <<>>)
            IN  /\ tree' = [tree EXCEPT ![f.parent].arr = after]
                /\ stack' = SetTop([f EXCEPT !.prims = Append(@, "removeAllNextSiblings"),
                                            !.snap = Snap(f, "removeAllNextSiblings", before, after, 0, FALSE, <<>>)])
                /\ calls' = calls + 1
                /\ UNCHANGED <<enters, walked, spare, status, vis>>

RemoveAllPrevSiblings ==
    /\ UNCHANGED <<pvars, xvars>>
    /\ InCallback /\ vis = "any" /\ calls < MaxCalls
    /\ LET f == Top IN
       IF ~f.cont THEN Throw
       ELSE LET before == Container(f)
                shifted == PrevShifted(f.key, f.ks)
                after == Splice(before, 0, Max(0, shifted), <<>>)
            IN  /\ tree' = [tree EXCEPT ![f.parent].arr = after]
                /\ stack' = SetTop([f EXCEPT !.ks = PrevShiftAfter(f.ks, shifted),
                                            !.prims = Append(@, "removeAllPrevSiblings"),
                                            !.snap = Snap(f, "removeAllPrevSiblings", before, after, 0, FALSE, <<>>)])
                /\ calls' = calls + 1
                /\ UNCHANGED <<enters, walked, spare, status, vis>>

\* a visitor never inserts a node that already sits in the container
Fresh(f, ns) == f.cont => ns \cap Range(Container(f)) = {}

\* the nodes a visitor hands to replaceWith: a fresh node, or the first kid of
\* path.node
ReplaceChoices(f) ==
    spare \cup (IF tree[f.pnode].arr # <<>> THEN {tree[f.pnode].arr[1]} ELSE {})

\* replaceWith(newNode): a second argument, if the caller passes one, is not read
ReplaceWith ==
    /\ UNCHANGED <<pvars, xvars>>
    /\ InCallback /\ vis = "any" /\ calls < MaxCalls
    /\ LET f == Top IN
       \E new \in {x \in ReplaceChoices(f) : Fresh(f, {x})}, opt \in BOOLEAN :
          IF ~f.cont /\ f.parent = 0 THEN Throw
          ELSE LET before == IF f.cont THEN Container(f) ELSE tree[f.parent].slots
                   after == IF f.cont THEN SetAt(before, ReplaceIndex(f.key, f.ks), new)
                            ELSE [before EXCEPT ![f.key + 1] = new]
               IN  /\ tree' = IF f.cont THEN [tree EXCEPT ![f.parent].arr = after]
                              ELSE [tree EXCEPT ![f.parent].slots = after]
                   /\ stack' = SetTop([f EXCEPT !.node = new,
                                               !.prims = Append(@, "replaceWith"),
                                               !.snap = Snap(f, "replaceWith", before, after, new, opt, <<>>)])
                   /\ calls' = calls + 1
                   /\ spare' = spare \ {new}
                   /\ UNCHANGED <<enters, walked, status, vis>>

Skip ==
    /\ UNCHANGED <<pvars, xvars>>
    /\ InCallback /\ vis = "any" /\ calls < MaxCalls
    /\ ~Top.skip
    /\ stack' = SetTop([Top EXCEPT !.skip = TRUE, !.prims = Append(@, "skip")])
    /\ calls' = calls + 1
    /\ UNCHANGED <<tree, enters, walked, spare, status, vis>>

\* the slices a visitor hands to replaceWithMultiple
MultiChoices(f) ==
    IF vis = "ungroup"
    THEN {tree[tree[f.pnode].arr[1]].arr}
    ELSE (IF tree[f.pnode].type = "CharacterClass" /\ tree[f.pnode].arr # <<>>
          THEN {tree[f.pnode].arr} ELSE {})
         \cup (IF SpareNodes \subseteq spare THEN {<<9, 10>>} ELSE {})

\* the ungroup visitor: Group({node, replaceWithMultiple}) { replaceWithMultiple(
\*   node.alternatives[0].elements, {traverse: true}) }
UngroupDue(f) ==
    /\ vis = "ungroup"
    /\ f.pc = "enterThis"
    /\ f.otype = "Group"
    /\ ~f.skip

\* replaceWithMultiple(nodes, {traverse})
ReplaceWithMultiple ==
    /\ UNCHANGED <<pvars, xvars>>
    /\ InCallback
    /\ \/ vis = "any" /\ calls < MaxCalls
       \/ UngroupDue(Top)
    /\ LET f == Top IN
       \E nodes \in {x \in MultiChoices(f) : Fresh(f, Range(x))},
          trav \in (IF vis = "ungroup" THEN {TRUE} ELSE BOOLEAN) :
          IF ~f.cont THEN Throw
          ELSE LET before == Container(f)
                   after == Splice(before, Max(0, f.key + f.ks), 1, nodes)
               IN  /\ tree' = [tree EXCEPT ![f.parent].arr = after]
                   /\ stack' = SetTop([f EXCEPT
                          !.ks = f.ks + Len(nodes) - 1,
                          !.skip = TRUE,
                          !.prims = Append(@, "replaceWithMultiple"),
                          !.multi = [on |-> trav, nodes |-> nodes, base |-> Max(0, f.key + f.ks),
                                     j |-> 0, acc |-> 0],
                          !.snap = Snap(f, "replaceWithMultiple", before, after, 0, trav, nodes)])
                   /\ calls' = calls + 1
                   /\ spare' = spare \ Range(nodes)
                   /\ UNCHANGED <<enters, walked, status, vis>>

(***************************************************************************)
(* The walk.                                                               *)
(***************************************************************************)
InReintroduction == \E d \in 1..Len(stack) : stack[d].multi.on

\* call traverseNode(n, parent, key, container) from the frame on top
Call(top, n, parent, key, cont, via) ==
    IF n = 0
    THEN /\ status' = "error"
         /\ UNCHANGED <<tree, stack, calls, enters, walked, spare, vis>>
    ELSE /\ stack' = Append(SetTop(top), NewFrame(n, parent, key, cont, via))
         /\ enters' = Bump(n)
         /\ walked' = IF via = "multi" \/ InReintroduction THEN walked \cup {n} ELSE walked
         /\ UNCHANGED <<tree, calls, spare, status, vis>>

\* a callback returns: the next callback of the path, or the walk of the kids
CallbackReturn ==
    /\ UNCHANGED <<pvars, xvars>>
    /\ InCallback
    /\ ~UngroupDue(Top)
    /\ PhaseAfter(Top.pc) # "return"
    /\ LET f == Top
           nxt == PhaseAfter(f.pc)
           to == IF nxt = "kids" /\ f.skip THEN PhaseAfter("kids") ELSE nxt
       IN  stack' = SetTop([f EXCEPT !.pc = to, !.ev = Append(@, to),
                                    !.i = 0, !.kown = f.node])
    /\ UNCHANGED <<tree, calls, enters, walked, spare, status, vis>>

\* switch (node.type): one step of the walk of the kids
KidStep ==
    /\ UNCHANGED <<pvars, xvars>>
    /\ status = "run" /\ Len(stack) > 0
    /\ Top.pc = "kids"
    /\ LET f == Top
           t == tree[f.kown].type
           kids == IF t \in ArrayTypes THEN tree[f.kown].arr
                   ELSE IF t \in SlotTypes THEN tree[f.kown].slots ELSE <<>>
       IN  IF t \notin ArrayTypes \cup SlotTypes \cup TerminalTypes
           THEN /\ status' = "error"
                /\ UNCHANGED <<tree, stack, calls, enters, walked, spare, vis>>
           ELSE IF f.i < Len(kids)
           THEN Call(f, kids[f.i + 1], f.kown, f.i, t \in ArrayTypes,
                     IF t \in ArrayTypes THEN "array" ELSE "slot")
           ELSE /\ stack' = SetTop([f EXCEPT !.pc = PhaseAfter("kids"),
                                            !.ev = Append(@, PhaseAfter("kids"))])
                /\ UNCHANGED <<tree, calls, enters, walked, spare, status, vis>>

\* replaceWithMultiple with traverse: walk the next inserted node, or finish
MultiStep ==
    /\ UNCHANGED <<pvars, xvars>>
    /\ status = "run" /\ Len(stack) > 0
    /\ Top.multi.on
    /\ LET f == Top
           m == f.multi
       IN  IF m.j < Len(m.nodes)
           THEN Call(f, m.nodes[m.j + 1], f.parent, m.base + m.j + m.acc, TRUE, "multi")
           ELSE /\ stack' = SetTop([f EXCEPT !.ks = @ + m.acc, !.multi = NoMulti])
                /\ UNCHANGED <<tree, calls, enters, walked, spare, status, vis>>

\* traverseNode returns keyShift to its caller
Return ==
    /\ UNCHANGED <<pvars, xvars>>
    /\ InCallback
    /\ PhaseAfter(Top.pc) = "return"
    /\ LET f == Top
           rest == SubSeq(stack, 1, Len(stack) - 1)
           lst == [prims |-> f.prims, snap |-> f.snap, via |-> f.via,
                   cont |-> IF f.cont THEN Container(f) ELSE <<>>,
                   orig |-> f.orig, key |-> f.key]
       IN  IF f.via = "root"
           THEN /\ stack' = rest
                /\ status' = "done"
           ELSE LET p == rest[Len(rest)]
                    q == IF f.via = "array"
                         THEN [p EXCEPT !.i = CursorAfter(p.i, f.ks), !.last = lst]
                         ELSE IF f.via = "slot"
                         THEN [p EXCEPT !.i = p.i + 1, !.last = lst]
                         ELSE [p EXCEPT !.multi.j = @ + 1, !.multi.acc = @ + f.ks,
                                        !.snap.touched = @ \/ f.prims # <<>>,
                                        !.last = lst]
                IN  /\ stack' = [rest EXCEPT ![Len(rest)] = q]
                    /\ status' = status
    /\ UNCHANGED <<tree, calls, enters, walked, spare, vis>>

\* traverse(path, state, visitor) on the root of the tree
TInit ==
    /\ vis \in {"any", "ungroup"}
    /\ tree = IF vis = "any" THEN TreeA ELSE TreeB
    /\ stack = <<[node |-> 1, pnode |-> 1, parent |-> 0, key |-> 0, cont |-> FALSE,
                  ks |-> 0, skip |-> FALSE, pc |-> CallbackOrder[1],
                  otype |-> (IF vis = "any" THEN TreeA ELSE TreeB)[1].type,
                  ev |-> <<CallbackOrder[1]>>, prims |-> <<>>, i |-> 0, kown |-> 0,
                  via |-> "root",
                  snap |-> NoSnap, last |-> NoLast, multi |-> NoMulti, orig |-> <<>>]>>
    /\ calls = 0
    /\ enters = [n \in Nodes |-> IF n = 1 THEN 1 ELSE 0]
    /\ walked = {}
    /\ spare = IF vis = "any" THEN SpareNodes ELSE {}
    /\ status = "run"

TNext ==
    \/ Remove
    \/ RemoveAllNextSiblings
    \/ RemoveAllPrevSiblings
    \/ ReplaceWith
    \/ Skip
    \/ ReplaceWithMultiple
    \/ CallbackReturn
    \/ KidStep
    \/ MultiStep
    \/ Return

(***************************************************************************)
(* The parser.  The token stream is read one token per step; the tokens    *)
(* are the input and are chosen as they are read.                          *)
(***************************************************************************)
\* tokens of one pattern
MaxTokens == 6

\* GroupOpen tokens of one pattern
MaxGroups == 3

\* backreference and subroutine tokens of one pattern
MaxRefs == 1

\* the largest group number a reference token names
MaxNum == 2

Names == {"n"}

NoName == ""

\* GroupOpen tokens: kind, negate, name
GroupOpenTokens ==
    {[kind |-> "group", negate |-> FALSE, name |-> NoName],
     [kind |-> "capturing", negate |-> FALSE, name |-> NoName],
     [kind |-> "lookahead", negate |-> FALSE, name |-> NoName],
     [kind |-> "lookahead", negate |-> TRUE, name |-> NoName],
     [kind |-> "lookbehind", negate |-> FALSE, name |-> NoName],
     [kind |-> "lookbehind", negate |-> TRUE, name |-> NoName]}
    \cup {[kind |-> "capturing", negate |-> FALSE, name |-> nm] : nm \in Names}

\* Backreference tokens: \N and \k<N> (sign ""), \k<-N> (sign "-"), \k<name>
BackreferenceTokens ==
    {[sign |-> sg, num |-> k, name |-> NoName] : sg \in {"", "-"}, k \in 1..MaxNum}
    \cup {[sign |-> "", num |-> 0, name |-> nm] : nm \in Names}

\* Subroutine tokens: \g<N>, \g<+N>, \g<-N>, \g<0>, \g<name>
SubroutineTokens ==
    {[sign |-> sg, num |-> k, name |-> NoName] : sg \in {"", "+", "-"}, k \in 1..MaxNum}
    \cup {[sign |-> "", num |-> 0, name |-> NoName]}
    \cup {[sign |-> "", num |-> 0, name |-> nm] : nm \in Names}

isLookahead(g) == g.kind = "lookahead"

isLookbehind(g) == g.kind = "lookbehind"

\* capturingGroups.push(node) for a capturing group, before its contents are parsed
CapturingGroupsAfterOpen(cg, tok) ==
    IF tok.kind = "capturing" THEN Append(cg, tok.name) ELSE cg

\* getOrInsert(namedGroupsByName, node.name, []).push(node)
NamedGroupsAfterOpen(ng, tok) ==
    IF tok.kind = "capturing" /\ tok.name # NoName
    THEN [ng EXCEPT ![tok.name] = @ + 1]
    ELSE ng

\* the state the walk of a group's contents is called with
ChildState(g) ==
    [isInLookbehind |-> g.isInLookbehind \/ isLookbehind(g),
     isInNegLookbehind |-> g.isInNegLookbehind \/ (isLookbehind(g) /\ g.negate)]

TopState == [isInLookbehind |-> FALSE, isInNegLookbehind |-> FALSE]

\* centralized validation of lookbehind contents: parent g rejects its child c
LookbehindRejects(g, c) ==
    /\ (isLookbehind(g) \/ g.isInLookbehind)
    /\ ~opts.skipLookbehindValidation
    /\ IF (isLookbehind(g) /\ g.negate) \/ g.isInNegLookbehind
       THEN isLookahead(c) \/ c.kind = "capturing"
       ELSE isLookahead(c) \/ (isLookbehind(c) /\ c.negate)

\* fromNum that also rejects a reference to the group opened last
BackrefTooFarStrict(num, numCapturesToLeft) == num >= numCapturesToLeft

\* fromNum: num > numCapturesToLeft
BackrefTooFar(num, numCapturesToLeft) == num > numCapturesToLeft

\* fromNum: the ref of the node created
BackrefRef(tok, numCapturesToLeft) ==
    IF tok.sign = "-" THEN numCapturesToLeft + 1 - tok.num ELSE tok.num

\* parseSubroutine: the absolute or resolved relative number
SubroutineRef(tok, numCapturesToLeft) ==
    IF tok.sign = "" THEN tok.num
    ELSE IF tok.sign = "+" THEN numCapturesToLeft + tok.num
    ELSE numCapturesToLeft + 1 - tok.num

\* whole-pattern validation that accepts a subroutine to a duplicate group name
SubroutineNameAnyCount(ng, name) == ng[name] >= 1

\* whole-pattern validation of a subroutine by name: defined, and not a duplicate
SubroutineNameOk(ng, name) == ng[name] >= 1 /\ ~(ng[name] > 1)

\* whole-pattern validation that lets a subroutine name the group after the last
SubroutineNumOffByOne(ref, cg) == ~(ref > Len(cg) + 1)

\* whole-pattern validation of a subroutine by number
SubroutineNumOk(ref, cg) == ~(ref > Len(cg))

\* numbered backref/subroutine not allowed when using named capture
MixesNumberedAndNamed ==
    /\ hasNumberedRef
    /\ \E nm \in Names : namedGroupsByName[nm] > 0
    /\ ~opts.captureGroup

Parsing == pstatus = "run"

PThrow(msg) ==
    /\ pstatus' = "error"
    /\ perr' = msg

\* history of the tokens read (seen, refs), kept apart from the parser's context:
\* the capturing groups whose opening parenthesis was read
OpensSeen == Len(seen.opens)

NamedSeen(nm) == Cardinality({j \in 1..Len(seen.opens) : seen.opens[j] = nm})

\* an enclosing lookbehind of the group being opened makes the nesting one that
\* Oniguruma does not allow
ForbiddenNesting(tok) ==
    \E d \in 1..Len(groups) :
        /\ isLookbehind(groups[d])
        /\ \/ isLookahead(tok)
           \/ ~groups[d].negate /\ isLookbehind(tok) /\ tok.negate
           \/ groups[d].negate /\ tok.kind = "capturing"

\* the group being opened is a negative lookbehind inside a positive lookbehind
NegativeInPositive(tok) ==
    /\ isLookbehind(tok) /\ tok.negate
    /\ \E d \in 1..Len(groups) : isLookbehind(groups[d]) /\ ~groups[d].negate

\* walk, case 'Character'
WalkCharacter ==
    /\ Parsing /\ current < MaxTokens
    /\ current' = current + 1
    /\ UNCHANGED <<opts, capturingGroups, namedGroupsByName, hasNumberedRef,
                   subroutines, groups, pstatus, perr, seen, refs>>
    /\ UNCHANGED <<tvars, xvars>>

\* parseGroupOpen up to the walk of the contents
ParseGroupOpen ==
    /\ Parsing /\ current < MaxTokens /\ seen.groups < MaxGroups
    /\ \E tok \in GroupOpenTokens :
          LET st == IF groups = <<>> THEN TopState ELSE ChildState(groups[Len(groups)])
              cg == CapturingGroupsAfterOpen(capturingGroups, tok)
          IN  /\ capturingGroups' = cg
              /\ namedGroupsByName' = NamedGroupsAfterOpen(namedGroupsByName, tok)
              /\ groups' = Append(groups,
                    [kind |-> tok.kind, negate |-> tok.negate, name |-> tok.name,
                     number |-> IF tok.kind = "capturing" THEN OpensSeen + 1 ELSE 0,
                     isInLookbehind |-> st.isInLookbehind,
                     isInNegLookbehind |-> st.isInNegLookbehind])
              /\ seen' = [seen EXCEPT
                    !.opens = IF tok.kind = "capturing" THEN Append(@, tok.name) ELSE @,
                    !.groups = @ + 1,
                    !.forbidden = @ \/ ForbiddenNesting(tok),
                    !.negInPos = @ \/ NegativeInPositive(tok)]
    /\ current' = current + 1
    /\ UNCHANGED <<opts, hasNumberedRef, subroutines, pstatus, perr, refs>>
    /\ UNCHANGED <<tvars, xvars>>

\* parseGroupOpen from the GroupClose token on: the group returns to the loop of
\* the group around it, which validates it as lookbehind contents
GroupClose ==
    /\ Parsing /\ current < MaxTokens /\ groups # <<>>
    /\ LET c == groups[Len(groups)]
           rest == SubSeq(groups, 1, Len(groups) - 1)
       IN  IF rest # <<>> /\ LookbehindRejects(rest[Len(rest)], c)
           THEN /\ PThrow("lookbehind")
                /\ UNCHANGED groups
           ELSE /\ groups' = rest
                /\ UNCHANGED <<pstatus, perr>>
    /\ current' = current + 1
    /\ UNCHANGED <<opts, capturingGroups, namedGroupsByName, hasNumberedRef,
                   subroutines, seen, refs>>
    /\ UNCHANGED <<tvars, xvars>>

RefRecord(type, tok, thrown, orphan, ref) ==
    [type |-> type, sign |-> tok.sign, num |-> tok.num, name |-> tok.name,
     opens |-> OpensSeen,
     named |-> IF tok.name = NoName THEN 0 ELSE NamedSeen(tok.name),
     own |-> \E d \in 1..Len(groups) : groups[d].number = ref /\ ref > 0,
     thrown |-> thrown, orphan |-> orphan, ref |-> ref]

ParseBackreference ==
    /\ Parsing /\ current < MaxTokens /\ Len(refs) < MaxRefs
    /\ \E tok \in BackreferenceTokens :
          LET numCapturesToLeft == Len(capturingGroups)
              tooFar == BackrefTooFar(tok.num, numCapturesToLeft)
              ref == BackrefRef(tok, numCapturesToLeft)
          IN  IF tok.name = NoName
              THEN IF tooFar /\ ~opts.skipBackrefValidation
                   THEN /\ PThrow("backref-number")
                        /\ refs' = Append(refs, RefRecord("Backreference", tok, TRUE, FALSE, 0))
                        /\ UNCHANGED hasNumberedRef
                   ELSE /\ hasNumberedRef' = TRUE
                        /\ refs' = Append(refs, RefRecord("Backreference", tok, FALSE, tooFar, ref))
                        /\ UNCHANGED <<pstatus, perr>>
              ELSE IF namedGroupsByName[tok.name] = 0
                   THEN /\ PThrow("backref-name")
                        /\ refs' = Append(refs, RefRecord("Backreference", tok, TRUE, FALSE, 0))
                        /\ UNCHANGED hasNumberedRef
                   ELSE /\ refs' = Append(refs, RefRecord("Backreference", tok, FALSE, FALSE, 0))
                        /\ UNCHANGED <<hasNumberedRef, pstatus, perr>>
    /\ current' = current + 1
    /\ UNCHANGED <<opts, capturingGroups, namedGroupsByName, subroutines, groups, seen>>
    /\ UNCHANGED <<tvars, xvars>>

ParseSubroutine ==
    /\ Parsing /\ current < MaxTokens /\ Len(refs) < MaxRefs
    /\ \E tok \in SubroutineTokens :
          LET ref == SubroutineRef(tok, Len(capturingGroups)) IN
          IF tok.name = NoName /\ tok.num = 0
          THEN /\ subroutines' = Append(subroutines, [num |-> 0, name |-> NoName])
               /\ refs' = Append(refs, RefRecord("Subroutine", tok, FALSE, FALSE, 0))
               /\ UNCHANGED <<hasNumberedRef, pstatus, perr>>
          ELSE IF tok.name = NoName
          THEN /\ hasNumberedRef' = TRUE
               /\ IF ref < 1
                  THEN /\ PThrow("subroutine-number")
                       /\ refs' = Append(refs, RefRecord("Subroutine", tok, TRUE, FALSE, 0))
                       /\ UNCHANGED subroutines
                  ELSE /\ subroutines' = Append(subroutines, [num |-> ref, name |-> NoName])
                       /\ refs' = Append(refs, RefRecord("Subroutine", tok, FALSE, FALSE, ref))
                       /\ UNCHANGED <<pstatus, perr>>
          ELSE /\ subroutines' = Append(subroutines, [num |-> 0, name |-> tok.name])
               /\ refs' = Append(refs, RefRecord("Subroutine", tok, FALSE, FALSE, 0))
               /\ UNCHANGED <<hasNumberedRef, pstatus, perr>>
    /\ current' = current + 1
    /\ UNCHANGED <<opts, capturingGroups, namedGroupsByName, groups, seen>>
    /\ UNCHANGED <<tvars, xvars>>

\* the tokens end: an unclosed group, or the validation that requires knowledge
\* about the complete pattern
Finish ==
    /\ Parsing
    /\ IF groups # <<>> THEN PThrow("unclosed")
       ELSE IF MixesNumberedAndNamed THEN PThrow("mixed")
       ELSE IF \E j \in 1..Len(subroutines) :
                  /\ subroutines[j].name = NoName
                  /\ ~SubroutineNumOk(subroutines[j].num, capturingGroups)
            THEN PThrow("subroutine-undefined")
       ELSE IF \E j \in 1..Len(subroutines) :
                  /\ subroutines[j].name # NoName
                  /\ ~SubroutineNameOk(namedGroupsByName, subroutines[j].name)
            THEN PThrow("subroutine-name")
       ELSE /\ pstatus' = "ok"
            /\ UNCHANGED perr
    /\ UNCHANGED <<opts, current, capturingGroups, namedGroupsByName, hasNumberedRef,
                   subroutines, groups, seen, refs>>
    /\ UNCHANGED <<tvars, xvars>>

\* parse(pattern, options): the context before the first token
PStart ==
    /\ current = 0
    /\ capturingGroups = <<>>
    /\ namedGroupsByName = [nm \in Names |-> 0]
    /\ hasNumberedRef = FALSE
    /\ subroutines = <<>>
    /\ groups = <<>>
    /\ perr = "none"
    /\ seen = [opens |-> <<>>, groups |-> 0, forbidden |-> FALSE, negInPos |-> FALSE]
    /\ refs = <<>>

PInit ==
    /\ opts \in [skipBackrefValidation : BOOLEAN, skipLookbehindValidation : BOOLEAN,
                 captureGroup : BOOLEAN]
    /\ pstatus = "run"
    /\ PStart

PNext ==
    \/ WalkCharacter
    \/ ParseGroupOpen
    \/ GroupClose
    \/ ParseBackreference
    \/ ParseSubroutine
    \/ Finish

(***************************************************************************)
(* The node constructors createCharacter and createQuantifier.             *)
(***************************************************************************)
\* the last code point of Unicode, 0x10FFFF
LastValid == 1114111

\* the last code point Oniguruma accepts, 0x13FFFF
OnigMax == 1310719

\* a quantifier without upper bound has max = Infinity, above every number
Infinity == MaxBound + 1

QuantifierKinds == {"greedy", "lazy", "possessive"}

CodePoints ==
    (0..CpWindow)
        \cup ((LastValid - CpWindow)..(LastValid + CpWindow))
        \cup ((OnigMax - CpWindow)..(OnigMax + CpWindow))

\* what a constructor gives: a node, or the error it throws
Thrown(msg) == [type |-> "Error", message |-> msg]

createCharacter(charCode, useLastValid) ==
    IF charCode > LastValid
    THEN IF useLastValid
         THEN [type |-> "Character", value |-> LastValid]
         ELSE IF charCode > OnigMax
              THEN Thrown("Invalid code point out of range")
              ELSE Thrown("Invalid code point out of range in JS")
    ELSE [type |-> "Character", value |-> charCode]

createQuantifierNoSwap(min, max, kind) ==
    IF max < min
    THEN [type |-> "Quantifier", kind |-> "possessive", min |-> min, max |-> max]
    ELSE [type |-> "Quantifier", kind |-> kind, min |-> min, max |-> max]

createQuantifier(min, max, kind) ==
    IF max < min
    THEN [type |-> "Quantifier", kind |-> "possessive", min |-> max, max |-> min]
    ELSE [type |-> "Quantifier", kind |-> kind, min |-> min, max |-> max]

NoNode == [type |-> "none"]

\* walk: a Character token; the end of a class range is read with useLastValid
CharacterCalls ==
    [fn : {"createCharacter"}, charCode : CodePoints, useLastValid : BOOLEAN,
     out : {NoNode}]

\* parseQuantifier: the bounds and the kind of the token
QuantifierCalls ==
    [fn : {"createQuantifier"}, min : 0..MaxBound, max : 0..Infinity,
     kind : QuantifierKinds, out : {NoNode}]

WalkCharacterToken ==
    /\ made.fn = "createCharacter"
    /\ made.out = NoNode
    /\ made' = [made EXCEPT !.out = createCharacter(made.charCode, made.useLastValid)]
    /\ UNCHANGED <<tvars, pvars, ovars, wvars>>

ParseQuantifier ==
    /\ made.fn = "createQuantifier"
    /\ made.out = NoNode
    /\ made' = [made EXCEPT !.out = createQuantifier(made.min, made.max, made.kind)]
    /\ UNCHANGED <<tvars, pvars, ovars, wvars>>

XInit == made \in CharacterCalls \cup QuantifierCalls

XNext ==
    \/ WalkCharacterToken
    \/ ParseQuantifier

\* no constructor is being called
XIdle == made = [fn |-> "none", out |-> NoNode]

(***************************************************************************)
(* The optimizer: nodes of the AST, the transforms, one traversal.         *)
(***************************************************************************)
\* the fields traverseNode puts in the path object it hands to a callback
PathFields ==
    {"node", "parent", "key", "container", "ast", "remove", "removeAllNextSiblings",
     "removeAllPrevSiblings", "replaceWith", "skip"}

\* the primitive of the path that the callers use and the traverser here lacks
SpecPathFields == {"replaceWithMultiple"}

\* const {root} = path: undefined unless the path has the field
RootUndefined == "root" \notin (PathFields \cup SpecPathFields)

FlagNames == {"digitIsAscii", "spaceIsAscii", "wordIsAscii", "posixIsAscii"}

createFlags(on) ==
    [type |-> "Flags", digitIsAscii |-> "digitIsAscii" \in on,
     spaceIsAscii |-> "spaceIsAscii" \in on, wordIsAscii |-> "wordIsAscii" \in on,
     posixIsAscii |-> "posixIsAscii" \in on]

Character(v) == [type |-> "Character", value |-> v]

\* an unnamed set has no value: ""
createCharacterSet(kind, negate) ==
    [type |-> "CharacterSet", kind |-> kind, value |-> "", negate |-> negate]

createPosixClass(name, negate) ==
    [type |-> "CharacterSet", kind |-> "posix", value |-> name, negate |-> negate]

createUnicodeProperty(name, negate) ==
    [type |-> "CharacterSet", kind |-> "property", value |-> name, negate |-> negate]

createCharacterClassRange(min, max) ==
    [type |-> "CharacterClassRange", min |-> Character(min), max |-> Character(max)]

CharacterClass(kind, negate, elements) ==
    [type |-> "CharacterClass", kind |-> kind, negate |-> negate, elements |-> elements]

Alternative(elements) == [type |-> "Alternative", elements |-> elements]

Group(alternatives) == [type |-> "Group", alternatives |-> alternatives]

CapturingGroup(number, alternatives) ==
    [type |-> "CapturingGroup", number |-> number, alternatives |-> alternatives]

Pattern(alternatives) == [type |-> "Pattern", alternatives |-> alternatives]

Quantifier(kind, element) ==
    [type |-> "Quantifier", kind |-> kind, min |-> 0, max |-> Infinity,
     element |-> element]

Regex(pattern, flags) == [type |-> "Regex", pattern |-> pattern, flags |-> flags]

\* node-utils: the node types that hold alternatives
alternativeContainerTypes ==
    {"AbsentFunction", "CapturingGroup", "Group", "LookaroundAssertion", "Pattern"}

\* node-utils: the set kinds that match one code point wherever they stand
universalCharacterSetKinds == {"digit", "hex", "posix", "property", "space", "word"}

isRange(node, min, max) ==
    /\ node.type = "CharacterClassRange"
    /\ node.min.value = min
    /\ node.max.value = max

fullNames == [L |-> "Letter", M |-> "Mark", N |-> "Number", P |-> "Punctuation"]

supercategories == [Pc |-> "P"]

subcategories ==
    [L |-> {"Ll", "Lm", "Lo", "Lt", "Lu"}, M |-> {"Mc", "Me", "Mn"},
     N |-> {"Nd", "Nl", "No"}]

\* the names isUnicode looks for, given one name v
Expanded(v, super, sub) ==
    {v}
        \cup (IF v \in DOMAIN fullNames THEN {fullNames[v]} ELSE {})
        \cup (IF super /\ v \in DOMAIN supercategories
              THEN {supercategories[v]}
                       \cup (IF supercategories[v] \in DOMAIN fullNames
                             THEN {fullNames[supercategories[v]]} ELSE {})
              ELSE {})
        \cup (IF sub /\ v \in DOMAIN subcategories THEN subcategories[v] ELSE {})

isUnicode(node, names, super, sub) ==
    /\ node.type = "CharacterSet"
    /\ node.kind = "property"
    /\ ~node.negate
    /\ node.value \in UNION {Expanded(v, super, sub) : v \in names}

\* the state of one traverseNode call while its callbacks run: path.node (changed
\* in place by the callbacks), what stands in the slot of the parent, whether
\* that is still path.node, skipTraversingKidsOfPath, whether inserted nodes
\* are still to be walked, whether the negate of the parent was flipped, and
\* whether a callback threw
Visit(node) ==
    [node |-> node, cur |-> <<node>>, self |-> TRUE, skip |-> FALSE, multi |-> FALSE,
     flip |-> FALSE, err |-> FALSE]

\* what stands in the slot of the parent
Slot(v) == IF v.self THEN <<v.node>> ELSE v.cur

\* path.replaceWith(newNode): container[key + keyShift] = newNode, or parent[key]
Replaced(v, newNode) ==
    [v EXCEPT !.cur = SubSeq(Slot(v), 1, Len(Slot(v)) - 1) \o <<newNode>>,
              !.self = FALSE]

TypeError(v) == [v EXCEPT !.err = TRUE]

\* useShorthands.CharacterSet: does the test of a branch read root.flags
ReadsRootFlags(node) ==
    \/ node.kind = "property"
         /\ node.value \in {"Decimal_Number", "Nd", "White_Space", "WSpace"}
    \/ node.kind = "posix" /\ node.value = "cntrl"

\* useShorthands.CharacterSet with root.flags = flags: the node that replaces
\* the set, or the set itself
useShorthandsSet(node, flags) ==
    IF \/ /\ node.kind = "property"
          /\ node.value \in {"Decimal_Number", "Nd"}
          /\ ~flags.digitIsAscii
          /\ ~flags.posixIsAscii
       \/ node.kind = "posix" /\ node.value = "digit"
    THEN createCharacterSet("digit", node.negate)
    ELSE IF \/ node.kind = "property" /\ node.value \in {"ASCII_Hex_Digit", "AHex"}
            \/ node.kind = "posix" /\ node.value = "xdigit"
    THEN createCharacterSet("hex", node.negate)
    ELSE IF \/ /\ node.kind = "property"
               /\ node.value \in {"White_Space", "WSpace"}
               /\ ~flags.spaceIsAscii
               /\ ~flags.posixIsAscii
            \/ node.kind = "posix" /\ node.value = "space"
    THEN createCharacterSet("space", node.negate)
    ELSE IF node.kind = "posix" /\ node.value = "cntrl" /\ ~flags.posixIsAscii
    THEN createUnicodeProperty("Cc", node.negate)
    ELSE node

\* the callback useShorthands.CharacterSet
UseShorthandsCharacterSet(v, flags) ==
    IF ReadsRootFlags(v.node) /\ RootUndefined THEN TypeError(v)
    ELSE LET newNode == useShorthandsSet(v.node, flags)
         IN  IF newNode # v.node THEN Replaced(v, newNode) ELSE v

\* does some element of the class pass isRange(kid, min, max)
HasRange(elements, min, max) ==
    \E i \in 1..Len(elements) : isRange(elements[i], min, max)

\* does some element of the class pass isUnicode(kid, name, {supercategories})
HasUnicode(elements, name, super) ==
    \E i \in 1..Len(elements) : isUnicode(elements[i], {name}, super, FALSE)

\* what useShorthands.CharacterClass finds in the elements of a class
Has(elements) ==
    [range0To10FFFF |-> HasRange(elements, 0, LastValid),
     rangeDigit0To9 |-> HasRange(elements, 48, 57),
     rangeAToFLower |-> HasRange(elements, 97, 102),
     rangeAToFUpper |-> HasRange(elements, 65, 70),
     unicodeL |-> HasUnicode(elements, "L", FALSE),
     unicodeM |-> HasUnicode(elements, "M", FALSE),
     unicodeN |-> HasUnicode(elements, "N", FALSE),
     unicodePc |-> HasUnicode(elements, "Pc", TRUE)]

HasWord(has) == has.unicodeL /\ has.unicodeM /\ has.unicodeN /\ has.unicodePc

HexRewrite(elements, has) ==
    IF has.rangeDigit0To9 /\ has.rangeAToFUpper /\ has.rangeAToFLower
    THEN LET keep(k) == ~(isRange(k, 48, 57) \/ isRange(k, 97, 102) \/ isRange(k, 65, 70))
         IN  SelectSeq(elements, keep) \o <<createCharacterSet("hex", FALSE)>>
    ELSE elements

AnyRewrite(elements, has) ==
    IF has.range0To10FFFF
    THEN LET keep(k) == ~isRange(k, 0, LastValid)
         IN  SelectSeq(elements, keep) \o <<createUnicodeProperty("Any", FALSE)>>
    ELSE elements

WordRewrite(elements, has, flags) ==
    IF HasWord(has) /\ ~flags.wordIsAscii /\ ~flags.posixIsAscii
    THEN LET keep(k) == ~isUnicode(k, {"L", "M", "N", "Pc"}, FALSE, TRUE)
         IN  SelectSeq(elements, keep) \o <<createCharacterSet("word", FALSE)>>
    ELSE elements

\* useShorthands.CharacterClass once has is filled: node.elements is rewritten
\* in place
ClassRewritten(v, has, flags) ==
    IF HasWord(has) /\ RootUndefined
    THEN TypeError([v EXCEPT !.node.elements = AnyRewrite(HexRewrite(@, has), has)])
    ELSE [v EXCEPT !.node.elements =
                       WordRewrite(AnyRewrite(HexRewrite(@, has), has), has, flags)]

\* the callback useShorthands.CharacterClass
UseShorthandsCharacterClass(v, flags) ==
    IF v.node.kind # "union" THEN v
    ELSE ClassRewritten(v, Has(v.node.elements), flags)

\* the parent of a path: its type, its kind, and how many other children it has
Parent(type, kind, sibs) == [type |-> type, kind |-> kind, sibs |-> sibs]

NoParent == Parent("none", "", 0)

\* node-utils hasOnlyChild(node, props): kids are the children of the node
hasOnlyChild(kids, type, kind) ==
    /\ Len(kids) = 1
    /\ type # "" => kids[1].type = type
    /\ kind # "" => kids[1].kind = kind

\* an unwrap that does not look at the negate of the class
UnwrapClassesNegated(v, p) ==
    LET node == v.node
    IN  IF /\ p.type # "CharacterClass"
           /\ node.kind = "union"
           /\ Len(node.elements) = 1
           /\ node.elements[1].type \in {"Character", "CharacterSet"}
        THEN Replaced(v, node.elements[1])
        ELSE v

\* the callback of unwrap-classes
UnwrapClasses(v, p) ==
    LET node == v.node
    IN  IF /\ p.type # "CharacterClass"
           /\ ~node.negate
           /\ node.kind = "union"
           /\ Len(node.elements) = 1
           /\ node.elements[1].type \in {"Character", "CharacterSet"}
        THEN Replaced(v, node.elements[1])
        ELSE v

\* an unwrap of [^\n] that does not look at the quantifier above it
UnwrapNegationWrappersAnyQuantifier(v, p) ==
    LET node == v.node
        kid == node.elements[1]
        flipped == [kid EXCEPT !.negate = ~kid.negate]
    IN  IF ~node.negate \/ node.kind # "union" \/ Len(node.elements) # 1 THEN v
        ELSE IF kid.type = "CharacterSet"
        THEN Replaced([v EXCEPT !.node.elements = <<flipped>>], flipped)
        ELSE IF p.type # "CharacterClass" /\ kid.type = "Character" /\ kid.value = 10
        THEN Replaced(v, createCharacterSet("newline", TRUE))
        ELSE v

\* the callback of unwrap-negation-wrappers
UnwrapNegationWrappers(v, p) ==
    LET node == v.node
        kid == node.elements[1]
        flipped == [kid EXCEPT !.negate = ~kid.negate]
    IN  IF ~node.negate \/ node.kind # "union" \/ Len(node.elements) # 1 THEN v
        ELSE IF kid.type = "CharacterSet"
        THEN Replaced([v EXCEPT !.node.elements = <<flipped>>], flipped)
        ELSE IF p.type # "CharacterClass" /\ kid.type = "Character" /\ kid.value = 10
        THEN IF p.type = "Quantifier" /\ p.kind # "lazy" THEN v
             ELSE Replaced(v, createCharacterSet("newline", TRUE))
        ELSE v

\* createAlternativeWithCombinedNodes
createAlternativeWithCombinedNodes(nodes) ==
    IF Len(nodes) > 1 THEN Alternative(<<CharacterClass("union", FALSE, nodes)>>)
    ELSE Alternative(nodes)

\* a test that takes every alternative of one element, whatever its type
SingleLengthAnyType(alt) ==
    Len(alt.elements) = 1

\* alternation-to-class: may the alternative join a class
SingleLength(alt) ==
    /\ Len(alt.elements) = 1
    /\ LET kid == alt.elements[1]
       IN  \/ kid.type = "Character"
           \/ kid.type = "CharacterClass"
           \/ kid.type = "CharacterSet" /\ kid.kind \in universalCharacterSetKinds

\* a loop that closes a run without pushing the alternative that ended it
RECURSIVE NewAltsDropping(_, _, _)
NewAltsDropping(alts, ccNodes, newAlts) ==
    IF alts = <<>>
    THEN IF ccNodes # <<>>
         THEN Append(newAlts, createAlternativeWithCombinedNodes(ccNodes))
         ELSE newAlts
    ELSE LET alt == Head(alts)
         IN  IF SingleLength(alt)
             THEN NewAltsDropping(Tail(alts), Append(ccNodes, alt.elements[1]), newAlts)
             ELSE NewAltsDropping(Tail(alts), <<>>,
                                  IF ccNodes # <<>>
                                  THEN Append(newAlts,
                                              createAlternativeWithCombinedNodes(ccNodes))
                                  ELSE Append(newAlts, alt))

\* alternation-to-class: the loop over node.alternatives
RECURSIVE NewAlts(_, _, _)
NewAlts(alts, ccNodes, newAlts) ==
    IF alts = <<>>
    THEN IF ccNodes # <<>>
         THEN Append(newAlts, createAlternativeWithCombinedNodes(ccNodes))
         ELSE newAlts
    ELSE LET alt == Head(alts)
         IN  IF SingleLength(alt)
             THEN NewAlts(Tail(alts), Append(ccNodes, alt.elements[1]), newAlts)
             ELSE NewAlts(Tail(alts), <<>>,
                          Append(IF ccNodes # <<>>
                                 THEN Append(newAlts,
                                             createAlternativeWithCombinedNodes(ccNodes))
                                 ELSE newAlts,
                                 alt))

\* the '*' callback of alternation-to-class
AlternationToClass(v) ==
    IF v.node.type \notin alternativeContainerTypes THEN v
    ELSE [v EXCEPT !.node.alternatives = NewAlts(v.node.alternatives, <<>>, <<>>)]

\* the transforms, in the order of the catalog
Catalog ==
    <<"unwrapClasses", "unnestUselessClasses", "unwrapNegationWrappers",
      "alternationToClass", "useShorthands">>

\* path.replaceWithMultiple(nodes, {traverse: true}): the nodes take the place of
\* the node and the kids of the node are skipped; the nodes are still to be walked
InsertedInPlace(v, nodes) ==
    [v EXCEPT !.cur = nodes, !.self = FALSE, !.skip = TRUE, !.multi = TRUE]

\* an unnest of the only child that leaves the negate of the parent as it is
UnnestUselessClassesNoFlip(v, p) ==
    LET node == v.node
    IN  IF p.type # "CharacterClass" \/ node.kind # "union" \/ Len(node.elements) = 0
        THEN v
        ELSE IF p.sibs = 0 /\ hasOnlyChild(Slot(v), "CharacterClass", "union")
        THEN InsertedInPlace(v, node.elements)
        ELSE IF node.negate THEN v
        ELSE IF p.kind = "union" THEN InsertedInPlace(v, node.elements)
        ELSE IF hasOnlyChild(node.elements, "", "") THEN Replaced(v, node.elements[1])
        ELSE v

\* the callback of unnest-useless-classes
UnnestUselessClasses(v, p) ==
    LET node == v.node
    IN  IF p.type # "CharacterClass" \/ node.kind # "union" \/ Len(node.elements) = 0
        THEN v
        ELSE IF p.sibs = 0 /\ hasOnlyChild(Slot(v), "CharacterClass", "union")
        THEN InsertedInPlace([v EXCEPT !.flip = (v.flip # node.negate)], node.elements)
        ELSE IF node.negate THEN v
        ELSE IF p.kind = "union" THEN InsertedInPlace(v, node.elements)
        ELSE IF hasOnlyChild(node.elements, "", "") THEN Replaced(v, node.elements[1])
        ELSE v

\* the callback of one active transform for the node, if it has one
Callback(name, v, p, flags, visitors) ==
    IF v.err \/ name \notin visitors THEN v
    ELSE IF v.node.type = "CharacterClass"
    THEN CASE name = "unwrapClasses" -> UnwrapClasses(v, p)
           [] name = "unnestUselessClasses" -> UnnestUselessClasses(v, p)
           [] name = "unwrapNegationWrappers" -> UnwrapNegationWrappers(v, p)
           [] name = "useShorthands" -> UseShorthandsCharacterClass(v, flags)
           [] OTHER -> v
    ELSE IF v.node.type = "CharacterSet" /\ name = "useShorthands"
    THEN UseShorthandsCharacterSet(v, flags)
    ELSE v

\* enterAllFn: the '*' callback of the visitor
EnterAll(node, visitors) ==
    IF "alternationToClass" \in visitors THEN AlternationToClass(Visit(node))
    ELSE Visit(node)

\* the switch of traverseNode on node.type: the kids that are walked
KidsOf(node) ==
    CASE node.type = "Regex" -> <<node.pattern, node.flags>>
      [] node.type \in {"Alternative", "CharacterClass"} -> node.elements
      [] node.type \in alternativeContainerTypes -> node.alternatives
      [] node.type = "CharacterClassRange" -> <<node.min, node.max>>
      [] node.type = "Quantifier" -> <<node.element>>
      [] OTHER -> <<>>

\* the node once its kids were walked; flip: a kid flipped the negate of the node
WithKids(node, kids, flip) ==
    CASE node.type = "Regex" -> [node EXCEPT !.pattern = kids[1], !.flags = kids[2]]
      [] node.type = "Alternative" -> [node EXCEPT !.elements = kids]
      [] node.type = "CharacterClass" ->
           [node EXCEPT !.elements = kids, !.negate = (@ # flip)]
      [] node.type \in alternativeContainerTypes -> [node EXCEPT !.alternatives = kids]
      [] node.type = "CharacterClassRange" ->
           [node EXCEPT !.min = kids[1], !.max = kids[2]]
      [] node.type = "Quantifier" -> [node EXCEPT !.element = kids[1]]
      [] OTHER -> node

KindOf(node) ==
    IF node.type \in {"CharacterClass", "Quantifier"} THEN node.kind ELSE ""

\* a call of traverseArray, at cursor i; extra counts the children of the parent
\* that are not in array
ArrayJob(array, i, ptype, pkind, extra) ==
    [fn |-> "traverseArray", array |-> array, i |-> i, ptype |-> ptype,
     pkind |-> pkind, extra |-> extra]

\* a call of traverseNode
NodeJob(node, p) == [fn |-> "traverseNode", node |-> node, p |-> p]

\* enterAllFn and the callbacks up to the one that may insert nodes
EnteredFirst(node, p, flags, visitors) ==
    Callback(Catalog[2],
             Callback(Catalog[1], EnterAll(node, visitors), p, flags, visitors),
             p, flags, visitors)

\* the callbacks after it
EnteredRest(v, p, flags, visitors) ==
    Callback(Catalog[5], Callback(Catalog[3], v, p, flags, visitors), p, flags,
             visitors)

Last(seq) == seq[Len(seq)]

\* the inserted nodes were walked: r is what traverseArray made of them
InsertedWalked(v, r) ==
    [v EXCEPT !.cur = r.nodes, !.multi = FALSE, !.flip = (@ # r.flip), !.err = r.err]

\* the kids of the node in the slot were walked: r is what became of them
KidsWalked(v, r) ==
    [nodes |-> SubSeq(Slot(v), 1, Len(Slot(v)) - 1)
                   \o <<WithKids(Last(Slot(v)), r.nodes, r.flip)>>,
     flip |-> v.flip, err |-> r.err]

\* the element at the cursor was walked: r is what stands in its place
Spliced(job, r) ==
    SubSeq(job.array, 1, job.i - 1) \o r.nodes
        \o SubSeq(job.array, job.i + 1, Len(job.array))

\* traverseArray and traverseNode: what stands in the array, or in the slot of
\* the node, afterwards, whether the negate of the parent was flipped, whether
\* a callback threw
RECURSIVE Traverse(_, _, _)

\* replaceWithMultiple with traverse: the inserted nodes are walked in place
WalkInserted(v, p, flags, visitors) ==
    IF v.multi /\ ~v.err
    THEN InsertedWalked(v, Traverse(ArrayJob(v.cur, 1, p.type, p.kind, p.sibs),
                                    flags, visitors))
    ELSE v

\* traverseNode after the callbacks: the kids of the node, unless skipped
WalkKids(v, flags, visitors) ==
    IF v.err \/ v.skip THEN [nodes |-> Slot(v), flip |-> v.flip, err |-> v.err]
    ELSE KidsWalked(v, Traverse(ArrayJob(KidsOf(Last(Slot(v))), 1, Last(Slot(v)).type,
                                         KindOf(Last(Slot(v))), 0),
                                flags, visitors))

\* traverseArray after the element at the cursor: on to the next element
WalkRest(job, r, flags, visitors) ==
    IF r.err THEN [nodes |-> Spliced(job, r), flip |-> r.flip, err |-> TRUE]
    ELSE [Traverse(ArrayJob(Spliced(job, r), job.i + Len(r.nodes), job.ptype,
                            job.pkind, job.extra),
                   flags, visitors)
             EXCEPT !.flip = (r.flip # @)]

Traverse(job, flags, visitors) ==
    IF job.fn = "traverseArray"
    THEN IF job.i > Len(job.array)
         THEN [nodes |-> job.array, flip |-> FALSE, err |-> FALSE]
         ELSE WalkRest(job,
                       Traverse(NodeJob(job.array[job.i],
                                        Parent(job.ptype, job.pkind,
                                               job.extra + Len(job.array) - 1)),
                                flags, visitors),
                       flags, visitors)
    ELSE WalkKids(EnteredRest(WalkInserted(EnteredFirst(job.node, job.p, flags,
                                                        visitors),
                                           job.p, flags, visitors),
                              job.p, flags, visitors),
                  flags, visitors)

\* traverse({node: ast}, state, visitor) with the visitors of the active transforms
Traversed(root, visitors) ==
    LET r == Traverse(NodeJob(root, NoParent), root.flags, visitors)
    IN  [ast |-> r.nodes[1], err |-> r.err]

(***************************************************************************)
(* The ASTs parse returns that the optimizer is run on.                    *)
(***************************************************************************)
\* all sequences over S of length lo..hi
SeqsOf(S, lo, hi) == UNION {[1..n -> S] : n \in lo..hi}

\* the elements of s at the indexes of I, from index i on
RECURSIVE Pick(_, _, _)
Pick(s, i, I) ==
    IF i > Len(s) THEN <<>>
    ELSE (IF i \in I THEN <<s[i]>> ELSE <<>>) \o Pick(s, i + 1, I)

\* the non-empty subsequences of s
SubSeqsOf(s) == {Pick(s, 1, I) : I \in (SUBSET (1..Len(s))) \ {{}}}

\* the AST of a pattern that is one alternative holding one element
Single(element, flagsOn) ==
    Regex(Pattern(<<Alternative(<<element>>)>>), createFlags(flagsOn))

ClassLeaves ==
    {Character(97), Character(10), createCharacterSet("digit", FALSE),
     createPosixClass("digit", FALSE), createCharacterClassRange(97, 102)}

\* [x], [^x], [xy], [^xy]
PlainClasses ==
    {CharacterClass("union", n, e) : n \in BOOLEAN, e \in SeqsOf(ClassLeaves, 1, MaxElements)}

InnerClasses ==
    {CharacterClass("union", n, e) :
        n \in BOOLEAN,
        e \in {<<Character(97)>>, <<createCharacterSet("digit", FALSE)>>,
               <<createPosixClass("digit", FALSE)>>, <<Character(97), Character(10)>>}}

\* [[x]], [[x]b], [[x]&&b], [[[x]]], with each negate
NestedClasses ==
    {CharacterClass("union", n, <<c>>) : n \in BOOLEAN, c \in InnerClasses}
        \cup {CharacterClass("union", n, <<c, Character(98)>>) :
                n \in BOOLEAN, c \in InnerClasses}
        \cup {CharacterClass("intersection", n, <<c, Character(98)>>) :
                n \in BOOLEAN, c \in InnerClasses}
        \cup {CharacterClass("union", n, <<CharacterClass("union", m, <<c>>)>>) :
                n \in BOOLEAN, m \in BOOLEAN,
                c \in {CharacterClass("union", k, <<Character(97)>>) : k \in BOOLEAN}}

ClassSources ==
    {Single(c, {}) : c \in PlainClasses \cup NestedClasses}
        \cup {Single(Quantifier(k, c), {}) :
                k \in QuantifierKinds, c \in PlainClasses}

PropertyNames ==
    {"Decimal_Number", "Nd", "White_Space", "WSpace", "ASCII_Hex_Digit", "AHex", "Lu"}

PosixNames == {"digit", "space", "xdigit", "cntrl", "alpha"}

NamedSets ==
    {createUnicodeProperty(v, n) : v \in PropertyNames, n \in BOOLEAN}
        \cup {createPosixClass(v, n) : v \in PosixNames, n \in BOOLEAN}

WordElements ==
    <<createUnicodeProperty("Pc", FALSE), createUnicodeProperty("Pc", FALSE),
      Character(61), createUnicodeProperty("L", FALSE), createUnicodeProperty("M", FALSE),
      createUnicodeProperty("N", FALSE)>>

WordElementsWide ==
    <<createUnicodeProperty("Letter", FALSE), createUnicodeProperty("Lu", FALSE),
      createUnicodeProperty("M", FALSE), createUnicodeProperty("P", FALSE),
      createUnicodeProperty("N", FALSE), createUnicodeProperty("L", TRUE)>>

HexElements ==
    <<createCharacterClassRange(65, 70), createCharacterClassRange(65, 70),
      Character(61), createCharacterClassRange(48, 57),
      createCharacterClassRange(97, 102), createCharacterClassRange(0, LastValid)>>

ShorthandClasses ==
    {CharacterClass("union", n, e) :
        n \in BOOLEAN,
        e \in SubSeqsOf(WordElements) \cup SubSeqsOf(WordElementsWide)
                \cup SubSeqsOf(HexElements)}

ShorthandSources ==
    {Single(s, on) : s \in NamedSets \cup ShorthandClasses, on \in SUBSET FlagNames}

\* the alternatives a pattern is made of: a, b, ab, the empty one, [ab], \d,
\* (?:a|b), (a|b)
AlternativePool ==
    {Alternative(<<Character(97)>>), Alternative(<<Character(98)>>),
     Alternative(<<Character(97), Character(98)>>), Alternative(<<>>),
     Alternative(<<CharacterClass("union", FALSE, <<Character(97), Character(98)>>)>>),
     Alternative(<<createCharacterSet("digit", FALSE)>>),
     Alternative(<<Group(<<Alternative(<<Character(97)>>),
                           Alternative(<<Character(98)>>)>>)>>),
     Alternative(<<CapturingGroup(0, <<Alternative(<<Character(97)>>),
                                       Alternative(<<Character(98)>>)>>)>>)}

\* capturing groups are numbered from 1 in source order
RECURSIVE Numbered(_, _)
Numbered(alts, next) ==
    IF alts = <<>> THEN <<>>
    ELSE LET alt == Head(alts)
             isGroup == alt.elements # <<>> /\ alt.elements[1].type = "CapturingGroup"
         IN  <<IF isGroup
               THEN Alternative(<<[alt.elements[1] EXCEPT !.number = next]>>)
               ELSE alt>>
                 \o Numbered(Tail(alts), IF isGroup THEN next + 1 ELSE next)

AlternationSources ==
    {Regex(Pattern(Numbered(alts, 1)), createFlags(on)) :
        alts \in SeqsOf(AlternativePool, 2, MaxAlternatives),
        on \in {{}, {"posixIsAscii"}}}

Transforms == {Catalog[i] : i \in 1..Len(Catalog)}

\* the sets of active transforms tried on the sources of use-shorthands
ShorthandActives ==
    {{"useShorthands"}, Transforms}

\* the sets of active transforms tried on the sources of alternation-to-class
AlternationActives ==
    {t \in SUBSET Transforms :
        "alternationToClass" \in t /\ ("useShorthands" \in t => t = Transforms)}

\* a fixed-point test that compares the kind of the root only
UnchangedRoot(before, after) == before.type = after.type

\* the AST is structurally unchanged across one full pass
Unchanged(before, after) == before = after

(***************************************************************************)
(* optimize: traversals with the active transforms up to a fixed point.    *)
(***************************************************************************)
\* one traversal that changed the AST; another one follows
OptimizePass ==
    /\ ostatus = "running"
    /\ passes < MaxPasses
    /\ LET r == Traversed(ast, active)
       IN  /\ ~r.err
           /\ ~Unchanged(ast, r.ast)
           /\ ast' = r.ast
    /\ passes' = passes + 1
    /\ UNCHANGED <<source, active, ostatus>>
    /\ UNCHANGED <<tvars, pvars, cvars, wvars>>

\* a traversal that left the AST as it was: the fixed point, optimize returns
OptimizeDone ==
    /\ ostatus = "running"
    /\ LET r == Traversed(ast, active)
       IN  /\ ~r.err
           /\ Unchanged(ast, r.ast)
    /\ ostatus' = "done"
    /\ UNCHANGED <<source, ast, active, passes>>
    /\ UNCHANGED <<tvars, pvars, cvars, wvars>>

\* a callback threw: the error leaves optimize
OptimizeThrow ==
    /\ ostatus = "running"
    /\ LET r == Traversed(ast, active)
       IN  /\ r.err
           /\ ast' = r.ast
    /\ ostatus' = "threw"
    /\ UNCHANGED <<source, active, passes>>
    /\ UNCHANGED <<tvars, pvars, cvars, wvars>>

OInit ==
    /\ \/ /\ source \in ClassSources
          /\ active \in (SUBSET Transforms) \ {{}}
       \/ /\ source \in AlternationSources
          /\ active \in AlternationActives
       \/ /\ source \in ShorthandSources
          /\ active \in ShorthandActives
    /\ ast = source
    /\ ostatus = "running"
    /\ passes = 0

ONext ==
    \/ OptimizePass
    \/ OptimizeDone
    \/ OptimizeThrow

(***************************************************************************)
(* parse: walk over the tokens of character classes, groups and            *)
(* quantifiers, and optimize over the AST that parse returns.              *)
(***************************************************************************)
Token(type) == [type |-> type]

CharacterToken(value) == [type |-> "Character", value |-> value]

CharacterSetToken(kind, value) ==
    [type |-> "CharacterSet", kind |-> kind, value |-> value, negate |-> FALSE]

CharacterClassOpenToken(negate) == [type |-> "CharacterClassOpen", negate |-> negate]

GroupOpenToken(kind) == [type |-> "GroupOpen", kind |-> kind, negate |-> FALSE]

QuantifierToken(kind) ==
    [type |-> "Quantifier", kind |-> kind, min |-> 0, max |-> Infinity]

\* what a call of walk hands back: the node, context.current after it, and pop:
\* the call took the last element of parent away; log: what the hyphen and
\* quantifier tokens walked so far saw and became
Returned(node, cur, pop, log) ==
    [node |-> node, cur |-> cur, err |-> "", pop |-> pop, log |-> log]

Threw(msg, log) == [node |-> NoNode, cur |-> 0, err |-> msg, pop |-> FALSE, log |-> log]

\* tokens[i].type, "none" for undefined
TypeAt(toks, i) == IF i \in 1..Len(toks) THEN toks[i].type ELSE "none"

\* parent.elements.at(-1)?.type, "none" for undefined
PrevType(elements) == IF elements = <<>> THEN "none" ELSE Last(elements).type

Front(seq) == SubSeq(seq, 1, Len(seq) - 1)

\* parent.elements once the child that walk returned was pushed
Pushed(elements, r) == Append(IF r.pop THEN Front(elements) ELSE elements, r.node)

\* the test with a following hyphen taken for a literal as well
IsRangeConnectorBeforeSet(prev, checking, next) ==
    /\ ~checking
    /\ prev \notin {"none", "CharacterClass", "CharacterClassRange"}
    /\ next \in {"Character", "CharacterSet"}

\* the test of parseCharacterClassHyphen: the hyphen connects a range
IsRangeConnector(prev, checking, next) ==
    /\ ~checking
    /\ prev \notin {"none", "CharacterClass", "CharacterClassRange"}
    /\ next \notin {"none", "CharacterClassOpen", "CharacterClassClose",
                    "CharacterClassIntersector"}

HyphenEntry(at, prev, checking, next, connector, end, out) ==
    [token |-> "CharacterClassHyphen", at |-> at, prev |-> prev,
     checking |-> checking, next |-> next, connector |-> connector,
     end |-> end, out |-> out]

QuantifierEntry(at, prev, out) ==
    [token |-> "Quantifier", at |-> at, prev |-> prev, checking |-> FALSE,
     next |-> "", connector |-> FALSE, end |-> "", out |-> out]

\* parseCharacterClassHyphen once the range end was walked: r is that walk
RangeEnd(at, prevNode, next, r) ==
    IF prevNode.type = "Character" /\ r.node.type = "Character"
    THEN IF r.node.value < prevNode.value
         THEN Threw("Character class range out of order",
                    Append(r.log, HyphenEntry(at, prevNode.type, FALSE, next, TRUE,
                                              r.node.type, "error")))
         ELSE Returned(createCharacterClassRange(prevNode.value, r.node.value),
                       r.cur, TRUE,
                       Append(r.log, HyphenEntry(at, prevNode.type, FALSE, next, TRUE,
                                                 r.node.type, "CharacterClassRange")))
    ELSE Threw("Invalid character class range",
               Append(r.log, HyphenEntry(at, prevNode.type, FALSE, next, TRUE,
                                         r.node.type, "error")))

\* parseCharacterClassHyphen when the hyphen is a literal
LiteralHyphen(at, prev, checking, next, log) ==
    Returned(Character(45), at + 1, FALSE,
             Append(log, HyphenEntry(at, prev, checking, next, FALSE, "", "Character")))

\* parseQuantifier without the test of the quantified node's type
parseQuantifierAnyType(token, at, elements, log) ==
    IF PrevType(elements) = "none"
    THEN Threw("Quantifier requires a repeatable token",
               Append(log, QuantifierEntry(at, PrevType(elements), "error")))
    ELSE Returned(Quantifier(token.kind, Last(elements)), at + 1, TRUE,
                  Append(log, QuantifierEntry(at, PrevType(elements), "Quantifier")))

\* parseQuantifier, the token at tokens[at]
parseQuantifier(token, at, elements, log) ==
    IF PrevType(elements) \in {"none", "Assertion", "Directive", "LookaroundAssertion"}
    THEN Threw("Quantifier requires a repeatable token",
               Append(log, QuantifierEntry(at, PrevType(elements), "error")))
    ELSE Returned(Quantifier(token.kind, Last(elements)), at + 1, TRUE,
                  Append(log, QuantifierEntry(at, PrevType(elements), "Quantifier")))

\* parseCharacterSet: the names drawn here are no POSIX class names and are
\* left as they are by the normalisation of property names
parseCharacterSet(token) ==
    IF token.kind = "property" THEN createUnicodeProperty(token.value, token.negate)
    ELSE createCharacterSet(token.kind, token.negate)

\* createByGroupKind, for the kinds drawn here
createByGroupKind(token) ==
    IF token.kind = "lookahead"
    THEN [type |-> "LookaroundAssertion", kind |-> "lookahead",
          negate |-> token.negate, alternatives |-> <<Alternative(<<>>)>>]
    ELSE Group(<<Alternative(<<>>)>>)

\* the node parseCharacterClassOpen returns for the intersections it collected
ClassOf(negate, intersections) ==
    IF Len(intersections) = 1 THEN CharacterClass("union", negate, intersections[1])
    ELSE CharacterClass("intersection", negate,
             [i \in 1..Len(intersections) |->
                 IF Len(intersections[i]) = 1 THEN intersections[i][1]
                 ELSE CharacterClass("union", FALSE, intersections[i])])

RECURSIVE walk(_, _, _, _, _)
RECURSIVE ClassLoop(_, _, _, _, _, _)
RECURSIVE GroupLoop(_, _, _, _, _)

\* walk(parent, state): at is context.current, elements is parent.elements,
\* checking is state.isCheckingRangeEnd
walk(toks, at, elements, checking, log) ==
    CASE toks[at].type = "Alternator" -> Returned(Alternative(<<>>), at + 1, FALSE, log)
      [] toks[at].type = "Assertion" ->
           Returned([type |-> "Assertion", kind |-> toks[at].kind], at + 1, FALSE, log)
      [] toks[at].type = "Character" ->
           Returned(Character(toks[at].value), at + 1, FALSE, log)
      [] toks[at].type = "CharacterClassHyphen" ->
           IF IsRangeConnector(PrevType(elements), checking, TypeAt(toks, at + 1))
           THEN RangeEnd(at, Last(elements), TypeAt(toks, at + 1),
                         walk(toks, at + 1, elements, TRUE, log))
           ELSE LiteralHyphen(at, PrevType(elements), checking,
                              TypeAt(toks, at + 1), log)
      [] toks[at].type = "CharacterClassOpen" ->
           ClassLoop(toks, at + 1, toks[at].negate, <<<<>>>>, checking, log)
      [] toks[at].type = "CharacterSet" ->
           Returned(parseCharacterSet(toks[at]), at + 1, FALSE, log)
      [] toks[at].type = "Directive" ->
           Returned([type |-> "Directive", kind |-> toks[at].kind], at + 1, FALSE, log)
      [] toks[at].type = "GroupOpen" ->
           GroupLoop(toks, at + 1, createByGroupKind(toks[at]), checking, log)
      [] toks[at].type = "Quantifier" -> parseQuantifier(toks[at], at, elements, log)
      [] OTHER -> Threw("Unexpected token type", log)

\* the loop of parseCharacterClassOpen, then its return
ClassLoop(toks, at, negate, intersections, checking, log) ==
    IF TypeAt(toks, at) = "none" THEN Threw("Unclosed character class", log)
    ELSE IF TypeAt(toks, at) = "CharacterClassClose"
    THEN Returned(ClassOf(negate, intersections), at + 1, FALSE, log)
    ELSE IF TypeAt(toks, at) = "CharacterClassIntersector"
    THEN ClassLoop(toks, at + 1, negate, Append(intersections, <<>>), checking, log)
    ELSE LET r == walk(toks, at, Last(intersections), checking, log)
         IN  IF r.err # "" THEN r
             ELSE ClassLoop(toks, r.cur, negate,
                            [intersections EXCEPT ![Len(intersections)] = Pushed(@, r)],
                            checking, r.log)

\* the loop of parseGroupOpen, then its return
GroupLoop(toks, at, node, checking, log) ==
    IF TypeAt(toks, at) = "none" THEN Threw("Unclosed group", log)
    ELSE IF TypeAt(toks, at) = "GroupClose" THEN Returned(node, at + 1, FALSE, log)
    ELSE IF TypeAt(toks, at) = "Alternator"
    THEN GroupLoop(toks, at + 1,
                   [node EXCEPT !.alternatives = Append(@, Alternative(<<>>))],
                   checking, log)
    ELSE LET r == walk(toks, at, Last(node.alternatives).elements, checking, log)
         IN  IF r.err # "" THEN r
             ELSE GroupLoop(toks, r.cur,
                            [node EXCEPT !.alternatives[Len(node.alternatives)].elements =
                                             Pushed(@, r)],
                            checking, r.log)

RECURSIVE TopLoop(_, _, _, _)

\* the loop of parse over the top-level tokens, then the AST or the error
TopLoop(toks, at, alternatives, log) ==
    IF at > Len(toks)
    THEN [err |-> "", ast |-> Regex(Pattern(alternatives), createFlags({})), log |-> log]
    ELSE LET r == walk(toks, at, Last(alternatives).elements, FALSE, log)
         IN  IF r.err # "" THEN [err |-> r.err, ast |-> NoNode, log |-> r.log]
             ELSE IF r.node.type = "Alternative"
             THEN TopLoop(toks, r.cur, Append(alternatives, r.node), r.log)
             ELSE TopLoop(toks, r.cur,
                          [alternatives EXCEPT ![Len(alternatives)].elements =
                                                   Pushed(@, r)],
                          r.log)

\* parse, given the tokens of the pattern
parse(toks) == TopLoop(toks, 1, <<Alternative(<<>>)>>, <<>>)

\* ---- the token sequences parse is given ----
\* the tokens that stand inside a character class
ClassTokens ==
    {CharacterToken(43), CharacterToken(97), CharacterSetToken("digit", ""),
     Token("CharacterClassHyphen"), CharacterClassOpenToken(FALSE),
     Token("CharacterClassClose"), Token("CharacterClassIntersector")}

RECURSIVE Depths(_, _, _)
\* the brackets of the class body close what they open: the nesting depth
\* after token i, or -1 once a bracket closed what was never opened
Depths(body, i, depth) ==
    IF depth < 0 \/ i > Len(body) THEN depth
    ELSE Depths(body, i + 1,
                CASE body[i].type = "CharacterClassOpen" -> depth + 1
                  [] body[i].type = "CharacterClassClose" -> depth - 1
                  [] OTHER -> depth)

\* one class with up to MaxBody tokens between its brackets
ClassPatterns ==
    {<<CharacterClassOpenToken(FALSE)>> \o body \o <<Token("CharacterClassClose")>> :
        body \in {b \in SeqsOf(ClassTokens, 0, MaxBody) : Depths(b, 1, 0) = 0}}

\* the pieces of the patterns with quantifiers: a, ^, \K, *, *?, [a], [^\n],
\* (?=a), (?:a), | and \p{Nd}
Pieces ==
    {<<CharacterToken(97)>>, <<[type |-> "Assertion", kind |-> "line_start"]>>,
     <<[type |-> "Directive", kind |-> "keep"]>>,
     <<QuantifierToken("greedy")>>, <<QuantifierToken("lazy")>>,
     <<CharacterClassOpenToken(FALSE), CharacterToken(97), Token("CharacterClassClose")>>,
     <<CharacterClassOpenToken(TRUE), CharacterToken(10), Token("CharacterClassClose")>>,
     <<GroupOpenToken("lookahead"), CharacterToken(97), Token("GroupClose")>>,
     <<GroupOpenToken("group"), CharacterToken(97), Token("GroupClose")>>,
     <<Token("Alternator")>>, <<CharacterSetToken("property", "Nd")>>}

RECURSIVE Joined(_)
Joined(pieces) == IF pieces = <<>> THEN <<>> ELSE Head(pieces) \o Joined(Tail(pieces))

\* up to MaxPieces pieces in a row
QuantifierPatterns == {Joined(p) : p \in SeqsOf(Pieces, 1, MaxPieces)}

\* the transforms optimize runs over what parse returned
ParsedActives == {Transforms, Transforms \ {"useShorthands"}}

\* parse(pattern): the whole walk over the tokens
Parse ==
    /\ parsed.status = "todo"
    /\ parsed' = [status |-> IF parse(tokens).err = "" THEN "ok" ELSE "error",
                  err |-> parse(tokens).err, ast |-> parse(tokens).ast,
                  log |-> parse(tokens).log]
    /\ UNCHANGED tokens
    /\ UNCHANGED <<tvars, pvars, cvars, ovars>>

\* optimize(pattern): the AST parse returned goes into the fixed-point loop
OptimizeParsed ==
    /\ parsed.status = "ok"
    /\ ostatus = "idle"
    /\ source' = parsed.ast
    /\ ast' = parsed.ast
    /\ active' \in ParsedActives
    /\ ostatus' = "running"
    /\ passes' = 0
    /\ UNCHANGED wvars
    /\ UNCHANGED <<tvars, pvars, cvars>>

WInit ==
    /\ tokens \in ClassPatterns \cup QuantifierPatterns
    /\ parsed = [status |-> "todo", err |-> "", ast |-> NoNode, log |-> <<>>]

WNext ==
    \/ Parse
    \/ OptimizeParsed
    \/ ONext

\* no parse of a token sequence is going on
WIdle ==
    /\ tokens = <<>>
    /\ parsed = [status |-> "idle", err |-> "", ast |-> NoNode, log |-> <<>>]

\* optimize is not running
OIdle ==
    /\ source = NoNode
    /\ ast = NoNode
    /\ active = {}
    /\ ostatus = "idle"
    /\ passes = 0

\* no parse is going on
PIdle ==
    /\ opts = [skipBackrefValidation |-> FALSE, skipLookbehindValidation |-> FALSE,
               captureGroup |-> FALSE]
    /\ pstatus = "idle"
    /\ PStart

\* no traverse is going on
TIdle ==
    /\ vis = "any"
    /\ tree = TreeA
    /\ stack = <<>>
    /\ calls = 0
    /\ enters = [n \in Nodes |-> 0]
    /\ walked = {}
    /\ spare = {}
    /\ status = "idle"

Init == TInit /\ PIdle /\ XIdle /\ OIdle /\ WIdle

Next == TNext

Spec == Init /\ [][Next]_vars

ParseInit == PInit /\ TIdle /\ XIdle /\ OIdle /\ WIdle

ParseSpec == ParseInit /\ [][PNext]_vars

CreateInit == XInit /\ TIdle /\ PIdle /\ OIdle /\ WIdle

CreateSpec == CreateInit /\ [][XNext]_vars

OptInit == OInit /\ TIdle /\ PIdle /\ XIdle /\ WIdle

OptSpec == OptInit /\ [][ONext]_vars

WalkInit == WInit /\ TIdle /\ PIdle /\ XIdle /\ OIdle

WalkSpec == WalkInit /\ [][WNext]_vars

(***************************************************************************)
(* Properties of the traverser.                                            *)
(***************************************************************************)
IsPrefix(a, b) == Len(a) <= Len(b) /\ SubSeq(b, 1, Len(a)) = a

Frames == 1..Len(stack)

\* the position (1-based) the path's node held in the container when the path's
\* last container primitive was called, 0 when it was not in the container (it was
\* removed, or replaced by a slice); sn.touched tells that a node inserted by the
\* path called a primitive itself while it was walked, sn.fresh that no node of
\* the slice had been entered before it was inserted
SnapPos(sn) == IF sn.gone THEN 0 ELSE PosOf(sn.before, sn.cur)

\* stack[d] runs the array loop over its kids and stack[d + 1] is the kid being visited
ArrayKid(d) ==
    /\ d + 1 \in Frames
    /\ stack[d].pc = "kids"
    /\ stack[d + 1].via = "array"

\* after a path whose last container primitive is prim (called while its node was
\* in the container), the loop goes on with the node that followed it, if it is
\* still in the container
NextIsFollower(prim) ==
    \A d \in Frames :
        LET l == stack[d].last
            p == SnapPos(l.snap)
            hasNext == p > 0 /\ p < Len(l.snap.before)
        IN  (l.via = "array" /\ l.snap.prim = prim /\ p > 0 /\ ~l.snap.touched) =>
              /\ (ArrayKid(d) /\ hasNext /\ l.snap.before[p + 1] \in Range(l.cont))
                    => stack[d + 1].pnode = l.snap.before[p + 1]
              /\ (stack[d].pc \in {"exitAll", "exitThis"})
                    => (~hasNext \/ l.snap.before[p + 1] \notin Range(l.cont))

\* C1: for every node visited the callbacks fire in the order wildcard enter,
\* type enter, walk of the kids (unless skipped), type exit, wildcard exit.
ClaimedOrder == <<"enterAll", "enterThis", "kids", "exitThis", "exitAll">>

ClaimedOrderSkipped == <<"enterAll", "enterThis", "exitThis", "exitAll">>

C1_CallbackOrder ==
    \A d \in Frames :
        IsPrefix(stack[d].ev, ClaimedOrder) \/ IsPrefix(stack[d].ev, ClaimedOrderSkipped)

\* C2: remove() called on the node at index i of an array container takes that node
\* out of the container, none of its kids is walked afterwards, and the enclosing
\* loop goes on with the node that was at index i + 1.
C2_RemoveContract ==
    /\ \A d \in Frames :
          LET f == stack[d]
              p == SnapPos(f.snap)
          IN  /\ (f.snap.prim = "remove" /\ p > 0) =>
                    f.snap.after = Splice(f.snap.before, p - 1, 1, <<>>)
              /\ (\E j \in 1..Len(f.prims) : f.prims[j] = "remove") =>
                    (f.skip /\ f.pc # "kids")
    /\ NextIsFollower("remove")

C2_Witness ==
    \E d \in Frames :
        /\ ArrayKid(d)
        /\ stack[d].last.via = "array"
        /\ stack[d].last.snap.prim = "remove"
        /\ SnapPos(stack[d].last.snap) = 1
        /\ Len(stack[d].last.snap.before) = 4
        /\ stack[d + 1].pnode = stack[d].last.snap.before[2]

C4_NoRevisit == \A n \in Nodes : enters[n] >= 2 => n \in walked

\* C5: removeAllNextSiblings() removes exactly the elements after the current node,
\* whatever primitives were called earlier on the path, and keeps the current node
\* and everything before it.
C5_RemoveAllNext ==
    \A d \in Frames :
        LET f == stack[d]
            p == SnapPos(f.snap)
        IN  (f.snap.prim = "removeAllNextSiblings" /\ p > 0) =>
              f.snap.after = SubSeq(f.snap.before, 1, p)

\* C6: removeAllPrevSiblings() called on the node at index i removes exactly the i
\* elements before it, leaves it at index 0 followed by its siblings in order, and
\* the loop goes on with the node that followed it.
C6_RemoveAllPrev ==
    /\ \A d \in Frames :
          LET f == stack[d]
              p == SnapPos(f.snap)
          IN  (f.snap.prim = "removeAllPrevSiblings" /\ p > 0) =>
                /\ f.snap.after = SubSeq(f.snap.before, p, Len(f.snap.before))
                /\ (f.prims[Len(f.prims)] = "removeAllPrevSiblings") => f.key + f.ks = 0
    /\ NextIsFollower("removeAllPrevSiblings")

C6_Witness ==
    \E d \in Frames :
        /\ ArrayKid(d)
        /\ stack[d].last.via = "array"
        /\ stack[d].last.snap.prim = "removeAllPrevSiblings"
        /\ SnapPos(stack[d].last.snap) = 3
        /\ tree[stack[d].kown].arr[1] = stack[d].last.snap.cur
        /\ stack[d + 1].pnode = stack[d].last.snap.before[4]
        /\ stack[d + 1].key = 1

\* C7: replaceWith(newNode) stores newNode in the slot of the current node, and the
\* kids of newNode are walked only when the call opts in to it.
C7_ReplaceWithOptIn ==
    \A d \in Frames :
        LET f == stack[d]
            p == SnapPos(f.snap)
        IN  /\ (f.snap.prim = "replaceWith" /\ p > 0) =>
                  f.snap.after = [f.snap.before EXCEPT ![p] = f.snap.new]
            /\ (f.snap.prim = "replaceWith" /\ ~f.snap.opt /\ d + 1 \in Frames) =>
                  stack[d + 1].parent # f.snap.new

(***************************************************************************)
(* Properties of the parser.                                               *)
(***************************************************************************)
Refs == {refs[j] : j \in 1..Len(refs)}

NumberedBackrefs == {r \in Refs : r.type = "Backreference" /\ r.name = NoName}

NamedBackrefs == {r \in Refs : r.type = "Backreference" /\ r.name # NoName}

NamedSubroutines == {r \in Refs : r.type = "Subroutine" /\ r.name # NoName}

NumberedSubroutines ==
    {r \in Refs : r.type = "Subroutine" /\ r.name = NoName /\ r.num >= 1}

Recursions == {r \in Refs : r.type = "Subroutine" /\ r.name = NoName /\ r.num = 0}

\* C8: unless skipLookbehindValidation is set, parse rejects every pattern with a
\* lookahead inside a lookbehind, a negative lookbehind inside a positive lookbehind,
\* or a capturing group inside a negative lookbehind, at any depth; with the option
\* set no pattern is rejected for its lookbehind contents.
C8_LookbehindRejection ==
    /\ (pstatus = "ok" /\ ~opts.skipLookbehindValidation) => ~seen.forbidden
    /\ opts.skipLookbehindValidation => perr # "lookbehind"

\* C9: a numbered backreference (absolute or relative) is accepted iff its number is
\* at most the count of capturing groups whose opening parenthesis is to its left;
\* otherwise it is an error, unless skipBackrefValidation is set, and then the node is
\* kept with orphan = true.  A backreference within the bound never carries orphan.
C9_NumberedBackref ==
    \A r \in NumberedBackrefs :
        /\ r.thrown <=> (r.num > r.opens /\ ~opts.skipBackrefValidation)
        /\ ~r.thrown => (r.orphan <=> r.num > r.opens)
        /\ (r.num > r.opens /\ opts.skipBackrefValidation) => (~r.thrown /\ r.orphan)

\* \1 inside the group it refers to, as in (\1), parsed without error
C9_Witness ==
    /\ pstatus = "ok"
    /\ \E r \in NumberedBackrefs :
          /\ r.sign = "" /\ r.num = 1 /\ r.opens = 1
          /\ r.own /\ ~r.thrown /\ ~r.orphan /\ r.ref = 1

\* C10 as stated: in every AST returned by parse each reference by name, \k<name> or
\* \g<name>, has a capturing group of that name defined to its left.
C10_NamedRefsPrecede ==
    pstatus = "ok" =>
        \A r \in NamedBackrefs \cup NamedSubroutines : r.named >= 1

\* C10 as the code has it: in every AST returned by parse a \k<name> has a group of
\* that name opened to its left, and a \g<name> has exactly one group of that name
\* anywhere in the pattern, to its left or to its right; a \g<N> has group N
\* anywhere in the pattern.
C10_NamedRefsResolve ==
    pstatus = "ok" =>
        /\ \A r \in NamedBackrefs : r.named >= 1
        /\ \A r \in NamedSubroutines : NamedSeen(r.name) = 1
        /\ \A r \in NumberedSubroutines : r.ref >= 1 /\ r.ref <= OpensSeen

\* \g<n>(?<n>...) parsed without error: the subroutine comes before its group
C10_Witness ==
    /\ pstatus = "ok"
    /\ \E r \in NamedSubroutines : r.named = 0 /\ NamedSeen(r.name) = 1

\* the number the spec gives a numbered subroutine: N, +N and -N against the count
\* of capturing groups opened to the left of the reference
ResolvedNumber(r) ==
    IF r.sign = "" THEN r.num
    ELSE IF r.sign = "+" THEN r.opens + r.num
    ELSE r.opens + 1 - r.num

\* C11: after a successful parse with N capturing groups every Subroutine ref is 0, a
\* number in 1..N (relative forms resolved against the capture count at the
\* reference), or a name with exactly one definition; a number above N, a resolved
\* number below 1, an undefined or a duplicated name is an error.
C11_SubroutineRefs ==
    /\ \A r \in NumberedSubroutines :
          /\ r.thrown <=> ResolvedNumber(r) < 1
          /\ ~r.thrown => r.ref = ResolvedNumber(r)
    /\ \A r \in Recursions : ~r.thrown /\ r.ref = 0
    /\ pstatus = "ok" =>
          /\ \A j \in 1..Len(subroutines) :
                IF subroutines[j].name = NoName
                THEN subroutines[j].num \in 0..OpensSeen
                ELSE NamedSeen(subroutines[j].name) = 1
          /\ Len(subroutines) = Cardinality({j \in 1..Len(refs) : refs[j].type = "Subroutine"})
    /\ (pstatus = "error" /\ perr \in {"subroutine-undefined", "subroutine-name"}) =>
          \E r \in Refs :
              /\ r.type = "Subroutine"
              /\ IF r.name = NoName THEN r.ref > OpensSeen ELSE NamedSeen(r.name) # 1

\* \g<+1>(...) parsed without error: +1 is the next group to open
C11_Witness ==
    /\ pstatus = "ok"
    /\ \E r \in NumberedSubroutines :
          r.sign = "+" /\ r.num = 1 /\ r.opens = 0 /\ r.ref = 1 /\ OpensSeen >= 1

(***************************************************************************)
(* Properties of the node constructors.                                    *)
(***************************************************************************)
QuantifierMade == made.fn = "createQuantifier" /\ made.out # NoNode

CharacterMade == made.fn = "createCharacter" /\ made.out # NoNode

\* C12: a quantifier with max < min is built possessive with min and max
\* swapped, whatever kind the token carried; a quantifier with min <= max keeps
\* its bounds and its kind; so every Quantifier node has min <= max.
C12_ReversedBounds ==
    QuantifierMade =>
        /\ made.out.type = "Quantifier"
        /\ made.out.min <= made.out.max
        /\ made.max < made.min =>
              /\ made.out.kind = "possessive"
              /\ made.out.min = made.max
              /\ made.out.max = made.min
        /\ made.min <= made.max =>
              /\ made.out.kind = made.kind
              /\ made.out.min = made.min
              /\ made.out.max = made.max

\* a{3,1} lazy or greedy has been built: possessive, min 1, max 3
C12_Witness ==
    /\ QuantifierMade
    /\ made.min = 3 /\ made.max = 1 /\ made.kind = "lazy"
    /\ made.out = [type |-> "Quantifier", kind |-> "possessive", min |-> 1, max |-> 3]

\* C13: createCharacter rejects every code point above 0x13FFFF; above 0x10FFFF
\* and up to 0x13FFFF it rejects unless useLastValid is set, and then caps the
\* value to 0x10FFFF; every Character node returned has value <= 0x10FFFF.
C13_CodePointRange ==
    CharacterMade =>
        /\ made.charCode > OnigMax => made.out.type = "Error"
        /\ (made.charCode > LastValid /\ made.charCode <= OnigMax) =>
              IF made.useLastValid
              THEN made.out = [type |-> "Character", value |-> LastValid]
              ELSE made.out.type = "Error"
        /\ made.out.type = "Character" => made.out.value <= LastValid

(***************************************************************************)
(* Properties of the optimizer transforms.                                 *)
(***************************************************************************)

\* the elements of the only alternative of a pattern
Elements(root) == root.pattern.alternatives[1].elements

\* C14: run by the traverser, no transform of the catalog throws on an AST
\* returned by parse.
C14_NoTransformThrows ==
    ostatus # "threw"

RECURSIVE CapturesOf(_), CapturesIn(_)
CapturesOf(node) ==
    CASE node.type = "Regex" -> CapturesOf(node.pattern)
      [] node.type = "CapturingGroup" -> <<node.number>> \o CapturesIn(node.alternatives)
      [] node.type \in {"Pattern", "Group"} -> CapturesIn(node.alternatives)
      [] node.type = "Alternative" -> CapturesIn(node.elements)
      [] node.type = "Quantifier" -> CapturesOf(node.element)
      [] OTHER -> <<>>

CapturesIn(nodes) ==
    IF nodes = <<>> THEN <<>>
    ELSE CapturesOf(Head(nodes)) \o CapturesIn(Tail(nodes))

\* C16: every transform of the catalog leaves the Flags record of the root as it
\* was and leaves the capturing groups unchanged in count, number and source
\* order, on every AST and under every flag set.
C16_FlagsAndCapturesKept ==
    /\ ast.flags = source.flags
    /\ CapturesOf(ast) = CapturesOf(source)

\* (a|b)|(a|b) under posixIsAscii was rewritten by alternation-to-class and still
\* has its two groups
C16_Witness ==
    /\ ostatus = "done"
    /\ "alternationToClass" \in active
    /\ ast # source
    /\ source.flags.posixIsAscii
    /\ CapturesOf(source) = <<1, 2>>

\* the named sets C17 is about
C17_Named(set) ==
    /\ set.type = "CharacterSet"
    /\ \/ set.kind = "property"
            /\ set.value \in {"Decimal_Number", "Nd", "White_Space", "WSpace"}
       \/ set.kind = "posix" /\ set.value \in {"digit", "space", "cntrl"}

\* what C17 says the set becomes under the flags
C17_Shorthand(set, flags) ==
    CASE set.kind = "property" /\ set.value \in {"Decimal_Number", "Nd"} ->
           IF ~flags.digitIsAscii /\ ~flags.posixIsAscii
           THEN createCharacterSet("digit", set.negate) ELSE set
      [] set.kind = "property" /\ set.value \in {"White_Space", "WSpace"} ->
           IF ~flags.spaceIsAscii /\ ~flags.posixIsAscii
           THEN createCharacterSet("space", set.negate) ELSE set
      [] set.kind = "posix" /\ set.value = "digit" -> createCharacterSet("digit", set.negate)
      [] set.kind = "posix" /\ set.value = "space" -> createCharacterSet("space", set.negate)
      [] set.kind = "posix" /\ set.value = "cntrl" ->
           IF ~flags.posixIsAscii
           THEN createUnicodeProperty("Cc", set.negate) ELSE set

\* C17: with use-shorthands the only active transform, property Decimal_Number or
\* Nd (White_Space or WSpace) becomes the digit (space) shorthand iff neither
\* digitIsAscii (spaceIsAscii) nor posixIsAscii is set and stays otherwise; POSIX
\* digit and space become the shorthand under every flag set; POSIX cntrl becomes
\* property Cc iff posixIsAscii is not set; every rewrite keeps negate.
C17_SetShorthands ==
    (/\ active = {"useShorthands"}
     /\ ostatus # "running"
     /\ C17_Named(Elements(source)[1]))
        => /\ ostatus = "done"
           /\ Elements(ast) = <<C17_Shorthand(Elements(source)[1], source.flags)>>

\* a union class of characters and general-category property sets: the classes
\* no other rule of use-shorthands applies to
C18_WordClass(c) ==
    /\ c.type = "CharacterClass"
    /\ c.kind = "union"
    /\ \A i \in 1..Len(c.elements) :
          \/ c.elements[i].type = "Character"
          \/ /\ c.elements[i].type = "CharacterSet"
             /\ c.elements[i].kind = "property"
             /\ c.elements[i].value \in {"L", "Letter", "Lu", "M", "N", "P", "Pc"}

\* a non-negated property set named L, M, N or Pc, by short or full name
C18_Covering(k) == isUnicode(k, {"L", "M", "N", "Pc"}, FALSE, FALSE)

\* an element that is no non-negated property set
C18_Other(k) == ~(k.type = "CharacterSet" /\ k.kind = "property" /\ ~k.negate)

\* the class d is the class c with the covering sets removed and one \w appended
C18_Rewritten(c, d) ==
    /\ d.type = "CharacterClass" /\ d.kind = "union" /\ d.negate = c.negate
    /\ d.elements # <<>>
    /\ d.elements[Len(d.elements)] = createCharacterSet("word", FALSE)
    /\ LET rest == SubSeq(d.elements, 1, Len(d.elements) - 1)
       IN  /\ \A i \in 1..Len(rest) :
                /\ ~C18_Covering(rest[i])
                /\ \E j \in 1..Len(c.elements) : c.elements[j] = rest[i]
           /\ SelectSeq(rest, C18_Other) = SelectSeq(c.elements, C18_Other)

\* C18: with use-shorthands the only active transform, a union class with
\* non-negated property sets covering L, M, N and Pc loses those sets and gets
\* one \w appended after the remaining elements, which keep their order, and the
\* class keeps its negate; this happens only when neither wordIsAscii nor
\* posixIsAscii is set, and a class lacking one of the four is left unchanged.
C18_WordShorthand ==
    (/\ active = {"useShorthands"}
     /\ ostatus # "running"
     /\ C18_WordClass(Elements(source)[1]))
        => /\ ostatus = "done"
           /\ LET c == Elements(source)[1]
                  d == Elements(ast)[1]
              IN  IF /\ HasWord(Has(c.elements))
                     /\ ~source.flags.wordIsAscii
                     /\ ~source.flags.posixIsAscii
                  THEN C18_Rewritten(c, d)
                  ELSE d = c

\* a class that C19 says is unwrapped when it stands outside a class
C19_Unwraps(c) ==
    /\ c.type = "CharacterClass"
    /\ ~c.negate
    /\ c.kind = "union"
    /\ Len(c.elements) = 1
    /\ c.elements[1].type \in {"Character", "CharacterSet"}

\* the element of a pattern after unwrap-classes, as C19 has it: the element is
\* a class or a quantified class, and the classes inside a class stay
C19_Unwrapped(e) ==
    IF C19_Unwraps(e) THEN e.elements[1]
    ELSE IF e.type = "Quantifier" /\ C19_Unwraps(e.element)
    THEN [e EXCEPT !.element = e.element.elements[1]]
    ELSE e

\* C19: unwrap-classes replaces a class by its single child exactly when the
\* class is not negated, is a union, is not inside a class and has exactly one
\* element that is a Character or a CharacterSet; every other class (nested,
\* negated, of two or more elements, of a range, an intersection) is unchanged.
C19_UnwrapClasses ==
    active = {"unwrapClasses"} =>
        /\ ostatus # "threw"
        /\ (ostatus = "done" \/ passes >= 1) =>
              Elements(ast) = <<C19_Unwrapped(Elements(source)[1])>>

\* [a]* was unwrapped to a*
C19_Witness ==
    /\ active = {"unwrapClasses"}
    /\ ostatus = "done"
    /\ Elements(source)[1].type = "Quantifier"
    /\ C19_Unwraps(Elements(source)[1].element)
    /\ Elements(ast)[1].element = Character(97)

\* a non-empty union class
C20_Union(k) ==
    k.type = "CharacterClass" /\ k.kind = "union" /\ k.elements # <<>>

\* what stands in the place of the child k of a class of the given kind that has
\* other children too
C20_InPlace(k, kind) ==
    IF ~C20_Union(k) \/ k.negate THEN <<k>>
    ELSE IF kind = "union" THEN k.elements
    ELSE IF Len(k.elements) = 1 THEN <<k.elements[1]>>
    ELSE <<k>>

RECURSIVE C20_Flattened(_, _)
C20_Flattened(kids, kind) ==
    IF kids = <<>> THEN <<>>
    ELSE C20_InPlace(Head(kids), kind) \o C20_Flattened(Tail(kids), kind)

\* the outermost class c once its nested classes are unnested, as C20 has it
RECURSIVE C20_Unnested(_)
C20_Unnested(c) ==
    IF Len(c.elements) = 1 /\ C20_Union(c.elements[1])
    THEN C20_Unnested([c EXCEPT !.negate = (c.negate # c.elements[1].negate),
                                !.elements = c.elements[1].elements])
    ELSE [c EXCEPT !.elements = C20_Flattened(c.elements, c.kind)]

C21_Wrapper(c) ==
    c.type = "CharacterClass" /\ c.negate /\ c.kind = "union" /\ Len(c.elements) = 1

\* the element e, whose parent has type ptype and kind pkind, after one pass of
\* unwrap-negation-wrappers as C21 has it
RECURSIVE C21_Pass(_, _, _)
C21_Pass(e, ptype, pkind) ==
    IF e.type = "Quantifier"
    THEN [e EXCEPT !.element = C21_Pass(e.element, "Quantifier", e.kind)]
    ELSE IF e.type # "CharacterClass" THEN e
    ELSE IF C21_Wrapper(e) /\ e.elements[1].type = "CharacterSet"
    THEN [e.elements[1] EXCEPT !.negate = ~e.elements[1].negate]
    ELSE IF /\ C21_Wrapper(e) /\ e.elements[1] = Character(10)
            /\ ptype # "CharacterClass"
            /\ ~(ptype = "Quantifier" /\ pkind \in {"greedy", "possessive"})
    THEN createCharacterSet("newline", TRUE)
    ELSE [e EXCEPT !.elements =
                     [i \in 1..Len(e.elements) |->
                         C21_Pass(e.elements[i], "CharacterClass", e.kind)]]

\* C21: unwrap-negation-wrappers replaces a negated union class whose only
\* element is Character 10 and that is not inside a class by the negated newline
\* set, except under a greedy or possessive Quantifier, where it stays; under a
\* lazy quantifier the rewrite applies. A negated union class whose only element
\* is a CharacterSet is replaced by that set with its negate flipped, inside or
\* outside a class.
C21_UnwrapNegationWrappers ==
    active = {"unwrapNegationWrappers"} =>
        /\ ostatus # "threw"
        /\ (passes = 1 \/ (passes = 0 /\ ostatus = "done")) =>
              Elements(ast) = <<C21_Pass(Elements(source)[1], "Alternative", "")>>

\* [^\n]*? was rewritten to \N*?
C21_Witness ==
    /\ active = {"unwrapNegationWrappers"}
    /\ passes = 1
    /\ Elements(source)[1].type = "Quantifier"
    /\ Elements(source)[1].kind = "lazy"
    /\ Elements(source)[1].element = CharacterClass("union", TRUE, <<Character(10)>>)
    /\ Elements(ast)[1].element = createCharacterSet("newline", TRUE)

\* [^\n]* was left as it is
C21_WitnessGreedy ==
    /\ active = {"unwrapNegationWrappers"}
    /\ ostatus = "done"
    /\ Elements(source)[1].type = "Quantifier"
    /\ Elements(source)[1].kind = "greedy"
    /\ Elements(source)[1].element = CharacterClass("union", TRUE, <<Character(10)>>)
    /\ ast = source

\* an alternative that holds exactly one Character, CharacterClass or
\* universal-kind CharacterSet
C22_SingleElement(alt) ==
    /\ Len(alt.elements) = 1
    /\ \/ alt.elements[1].type \in {"Character", "CharacterClass"}
       \/ /\ alt.elements[1].type = "CharacterSet"
          /\ alt.elements[1].kind \in universalCharacterSetKinds

\* the length of the run of such alternatives that alts starts with
RECURSIVE C22_RunLength(_)
C22_RunLength(alts) ==
    IF alts = <<>> \/ ~C22_SingleElement(Head(alts)) THEN 0
    ELSE 1 + C22_RunLength(Tail(alts))

\* the alternatives of a container as C22 has them afterwards: every maximal run
\* of two or more is one alternative holding one union class, the rest stays,
\* and the containers inside the alternatives are treated alike
RECURSIVE C22_Fused(_), C22_Inside(_)
C22_Fused(alts) ==
    IF alts = <<>> THEN <<>>
    ELSE IF C22_RunLength(alts) >= 2
    THEN <<Alternative(<<CharacterClass("union", FALSE,
                            [i \in 1..C22_RunLength(alts) |-> alts[i].elements[1]])>>)>>
             \o C22_Fused(SubSeq(alts, C22_RunLength(alts) + 1, Len(alts)))
    ELSE <<C22_Inside(Head(alts))>> \o C22_Fused(Tail(alts))

C22_Inside(alt) ==
    [alt EXCEPT !.elements =
        [i \in 1..Len(alt.elements) |->
            IF alt.elements[i].type \in alternativeContainerTypes
            THEN [alt.elements[i] EXCEPT !.alternatives = C22_Fused(@)]
            ELSE alt.elements[i]]]

\* C22: alternation-to-class replaces, in every alternative container, each
\* maximal run of two or more adjacent alternatives that each hold exactly one
\* Character, CharacterClass or universal-kind CharacterSet by one alternative
\* holding one non-negated union class with those elements in their order; a run
\* of length one, an empty alternative and every other alternative stay as they
\* are and keep their relative order.
C22_AlternationToClass ==
    active = {"alternationToClass"} =>
        /\ ostatus # "threw"
        /\ (passes >= 1 \/ ostatus = "done") =>
              ast.pattern.alternatives = C22_Fused(source.pattern.alternatives)

\* a|b|ab was rewritten to [ab]|ab
C22_Witness ==
    /\ active = {"alternationToClass"}
    /\ ostatus = "done"
    /\ source.pattern.alternatives =
          <<Alternative(<<Character(97)>>), Alternative(<<Character(98)>>),
            Alternative(<<Character(97), Character(98)>>)>>
    /\ ast.pattern.alternatives =
          <<Alternative(<<CharacterClass("union", FALSE,
                                         <<Character(97), Character(98)>>)>>),
            Alternative(<<Character(97), Character(98)>>)>>

(***************************************************************************)
(* Further properties of the parser.                                       *)
(***************************************************************************)

\* C23: unless skipLookbehindValidation is set, parse rejects every negative
\* lookbehind that stands inside a positive lookbehind, also when that positive
\* lookbehind is itself inside a negative lookbehind.
C23_NegativeInPositive ==
    (pstatus = "ok" /\ ~opts.skipLookbehindValidation) => ~seen.negInPos

(***************************************************************************)
(* Properties of parse over character classes and quantifiers.             *)
(***************************************************************************)
\* what the hyphen tokens walked by parse saw and became
Hyphens ==
    {parsed.log[i] : i \in {j \in 1..Len(parsed.log) :
                                parsed.log[j].token = "CharacterClassHyphen"}}

\* the hyphen came out as a range connector: a range was made or parse threw
C24_Connects(e) == e.out \in {"CharacterClassRange", "error"}

\* C24, as stated: a hyphen of a character class connects a range only when
\* the previous sibling is a Character or CharacterSet, no range is under
\* construction and the next token is a Character or CharacterSet token; every
\* other hyphen becomes the literal Character 45, and a connector with an
\* endpoint that is no Character makes parse throw
C24_HyphenBeforeSet ==
    \A e \in Hyphens :
        /\ C24_Connects(e) <=>
              /\ e.prev \in {"Character", "CharacterSet"}
              /\ ~e.checking
              /\ e.next \in {"Character", "CharacterSet"}
        /\ ~C24_Connects(e) => e.out = "Character"
        /\ (C24_Connects(e) /\ (e.prev # "Character" \/ e.end # "Character"))
              => e.out = "error"

\* C24, amended: a hyphen of a character class connects a range only when the
\* previous sibling is a Character or CharacterSet, no range is under
\* construction and the next token is a Character, a CharacterSet or another
\* hyphen, which is then the literal end of the range; every other hyphen
\* becomes the literal Character 45, and a connector with an endpoint that is
\* no Character makes parse throw
C24_HyphenConnects ==
    \A e \in Hyphens :
        /\ C24_Connects(e) <=>
              /\ e.prev \in {"Character", "CharacterSet"}
              /\ ~e.checking
              /\ e.next \in {"Character", "CharacterSet", "CharacterClassHyphen"}
        /\ ~C24_Connects(e) => e.out = "Character"
        /\ (C24_Connects(e) /\ e.next = "CharacterClassHyphen") => e.end = "Character"
        /\ (C24_Connects(e) /\ (e.prev # "Character" \/ e.end # "Character"))
              => e.out = "error"

\* [+--] is the range from + to the hyphen
C24_Witness ==
    /\ tokens = <<CharacterClassOpenToken(FALSE), CharacterToken(43),
                  Token("CharacterClassHyphen"), Token("CharacterClassHyphen"),
                  Token("CharacterClassClose")>>
    /\ parsed.status = "ok"
    /\ Elements(parsed.ast) =
          <<CharacterClass("union", FALSE, <<createCharacterClassRange(43, 45)>>)>>

\* the node types a Quantifier may not hold
C25_NotRepeatable == {"Assertion", "Directive", "LookaroundAssertion"}

RECURSIVE C25_Quantifiable(_)
\* every Quantifier in the tree of node holds a repeatable element
C25_Quantifiable(node) ==
    /\ node.type = "Quantifier" => node.element.type \notin C25_NotRepeatable
    /\ \A i \in 1..Len(KidsOf(node)) : C25_Quantifiable(KidsOf(node)[i])

\* C25: in the AST parse returns and in the AST after every pass of the
\* transforms, no Quantifier holds an Assertion, a Directive or a
\* LookaroundAssertion; a quantifier token with no element before it in its
\* alternative, or after one of these three, makes parse throw
C25_QuantifierElement ==
    /\ parsed.status = "ok" => C25_Quantifiable(parsed.ast)
    /\ ostatus # "idle" => C25_Quantifiable(ast)
    /\ \A i \in 1..Len(parsed.log) :
          (/\ parsed.log[i].token = "Quantifier"
           /\ parsed.log[i].prev \in C25_NotRepeatable \cup {"none"})
             => parsed.status = "error"

\* [a]* parses, and a pass unwraps the class under the quantifier
C25_Witness ==
    /\ tokens = <<CharacterClassOpenToken(FALSE), CharacterToken(97),
                  Token("CharacterClassClose"), QuantifierToken("greedy")>>
    /\ parsed.status = "ok"
    /\ Elements(parsed.ast) =
          <<Quantifier("greedy", CharacterClass("union", FALSE, <<Character(97)>>))>>
    /\ passes = 1
    /\ Elements(ast) = <<Quantifier("greedy", Character(97))>>

\* (?=a)* makes parse throw
C25_WitnessThrow ==
    /\ tokens = <<GroupOpenToken("lookahead"), CharacterToken(97), Token("GroupClose"),
                  QuantifierToken("greedy")>>
    /\ parsed.status = "error"
    /\ parsed.err = "Quantifier requires a repeatable token"

RECURSIVE Size(_)
\* the number of nodes in the tree of node
Size(node) ==
    LET kids == KidsOf(node)
        RECURSIVE Sum(_)
        Sum(i) == IF i > Len(kids) THEN 0 ELSE Size(kids[i]) + Sum(i + 1)
    IN  1 + Sum(1)

\* C26: no pass of the transforms makes the AST larger, no pass is cut off by
\* the bound on the passes, and with all the transforms of the catalog active
\* the passes reach one that changes nothing
C26_Converges ==
    /\ ostatus = "running" => Size(Traversed(ast, active).ast) <= Size(ast)
    /\ (ostatus = "running" /\ passes = MaxPasses)
          => Unchanged(ast, Traversed(ast, active).ast)
    /\ active = Transforms => ostatus # "threw"

(***************************************************************************)
(* Further properties of the traverser.                                    *)
(***************************************************************************)
\* the primitives of the path object of traverseNode that change the container
ContainerPrimitives ==
    {"remove", "removeAllPrevSiblings", "removeAllNextSiblings", "replaceWith"}

\* the nodes that followed the node of the path that returned last when the path
\* was made and that are in the container now that it has returned
KeptFollowers(l) ==
    {l.orig[j] : j \in {k \in (l.key + 2)..Len(l.orig) : l.orig[k] \in Range(l.cont)}}

\* C27: after a path of an array container on which only remove,
\* removeAllPrevSiblings, removeAllNextSiblings and replaceWith were called, in
\* any sequence, no node that followed the path's node and is still in the
\* container lies before the cursor of the loop: none is skipped
C27_NoFollowerSkipped ==
    \A d \in Frames :
        LET l == stack[d].last
        IN  (/\ l.via = "array"
             /\ l.prims # <<>>
             /\ Range(l.prims) \subseteq ContainerPrimitives) =>
              \A n \in KeptFollowers(l) : PosOf(l.cont, n) > stack[d].i

\* C28: whenever a callback of a path runs on which no primitive but replaceWith
\* and skip was called, path.node is the node in the slot of the path and the
\* callbacks of the path are those registered for the type of that node: after
\* replaceWith(newNode) the later callbacks receive newNode
C28_PathNodeCurrent ==
    \A d \in Frames :
        (stack[d].pc # "kids" /\ ~stack[d].multi.on /\ status = "run"
           /\ Range(stack[d].prims) \subseteq {"replaceWith", "skip"}) =>
            /\ stack[d].pnode = stack[d].node
            /\ stack[d].otype = tree[stack[d].node].type

\* C29: every Backreference with a numeric ref in an AST that parse returns has
\* ref >= 1, under every option set, orphans and relative forms included
C29_BackrefRefPositive ==
    pstatus = "ok" => \A r \in NumberedBackrefs : ~r.thrown => r.ref >= 1

(***************************************************************************)
(* What a class of property sets matches, over one code point per general  *)
(* category that the sets of the model tell apart.                         *)
(***************************************************************************)
\* an upper-case and a lower-case letter, a mark, a digit, a connector and
\* another punctuation mark, a space, and the character =
Samples == {"Lu", "Ll", "Mn", "Nd", "Pc", "Po", "Zs", "="}

\* the code points with the general category named
CategoryOf(name) ==
    CASE name \in {"L", "Letter"} -> {"Lu", "Ll"}
      [] name \in {"M", "Mark"} -> {"Mn"}
      [] name \in {"N", "Number"} -> {"Nd"}
      [] name \in {"P", "Punctuation"} -> {"Pc", "Po"}
      [] OTHER -> {name} \cap Samples

\* \w without wordIsAscii and posixIsAscii: [\p{L}\p{M}\p{N}\p{Pc}]
WordSamples == {"Lu", "Ll", "Mn", "Nd", "Pc"}

\* the code points an element of a class matches
MatchedBy(k) ==
    CASE k.type = "Character" -> IF k.value = 61 THEN {"="} ELSE {}
      [] k.type = "CharacterSet" /\ k.kind = "word" ->
           IF k.negate THEN Samples \ WordSamples ELSE WordSamples
      [] k.type = "CharacterSet" /\ k.kind = "property" ->
           IF k.negate THEN Samples \ CategoryOf(k.value) ELSE CategoryOf(k.value)
      [] OTHER -> {}

\* the code points a union class matches
Matched(c) ==
    LET union == UNION {MatchedBy(c.elements[i]) : i \in 1..Len(c.elements)}
    IN  IF c.negate THEN Samples \ union ELSE union

\* the class has a non-negated property set with one of the names
C30_Holds(c, names) ==
    \E i \in 1..Len(c.elements) :
        /\ c.elements[i].type = "CharacterSet"
        /\ c.elements[i].kind = "property"
        /\ ~c.elements[i].negate
        /\ c.elements[i].value \in names

\* the elements of c that the \w rewrite keeps: the negated sets and the sets for
\* P, in the order they have in c
C30_Kept(k) ==
    /\ k.type = "CharacterSet"
    /\ k.kind = "property"
    /\ k.negate \/ k.value \in {"P", "Punctuation"}

\* C30: with use-shorthands the only active transform, the \w rewrite leaves
\* what the class matches as it was; it changes the class only when the class
\* has non-negated sets for L, M, N and for Pc or P; the class it makes has no
\* non-negated set left for L, M, N, Pc or a subcategory of L, M, N, and keeps
\* the sets for P and the negated sets; a class with subcategories of L, M, N
\* in place of the full category is left as it is
C30_WordRewriteKeepsMatches ==
    (/\ active = {"useShorthands"}
     /\ ostatus # "running"
     /\ C18_WordClass(Elements(source)[1])
     /\ ~source.flags.wordIsAscii
     /\ ~source.flags.posixIsAscii)
        => /\ ostatus = "done"
           /\ LET c == Elements(source)[1]
                  d == Elements(ast)[1]
                  full == /\ C30_Holds(c, {"L", "Letter"})
                          /\ C30_Holds(c, {"M", "Mark"})
                          /\ C30_Holds(c, {"N", "Number"})
                          /\ C30_Holds(c, {"Pc", "P", "Punctuation"})
              IN  /\ d.type = "CharacterClass"
                  /\ Matched(d) = Matched(c)
                  /\ d # c => full
                  /\ ~full => d = c
                  /\ full =>
                        /\ ~C30_Holds(d, {"L", "Letter", "M", "Mark", "N", "Number",
                                          "Pc", "Lu", "Ll", "Lm", "Lo", "Lt", "Mc",
                                          "Me", "Mn", "Nd", "Nl", "No"})
                        /\ SelectSeq(d.elements, C30_Kept)
                              = SelectSeq(c.elements, C30_Kept)
                        /\ C30_Holds(d, {"word"}) \/
                              \E i \in 1..Len(d.elements) :
                                  d.elements[i] = createCharacterSet("word", FALSE)

====
